---- MODULE Spec2Model ----
(***************************************************************************)
(* pg_ai_query: the response parser (QueryParser), the configuration store *)
(* (ConfigManager) and the provider selector (ProviderSelector).           *)
(*                                                                         *)
(* Texts are TLA+ strings handled character by character (Len, SubSeq,     *)
(* \o).  A TLA+ string literal cannot hold the backquote character, so the *)
(* character TICK stands for it; it occurs in no modelled text with any    *)
(* other meaning.                                                          *)
(***************************************************************************)
EXTENDS Integers, Sequences, FiniteSets, TLC

(***************************************************************************)
(* Characters and strings                                                  *)
(***************************************************************************)
TICK == "~"

FENCE == TICK \o TICK \o TICK

LowerLetters == "abcdefghijklmnopqrstuvwxyz"

UpperLetters == "ABCDEFGHIJKLMNOPQRSTUVWXYZ"

Digits == "0123456789"

CharAt(s, i) == IF i >= 1 /\ i <= Len(s) THEN SubSeq(s, i, i) ELSE ""

\* The literal lit occurs in s at position i.
StartsAt(s, i, lit) ==
  i >= 1 /\ i + Len(lit) - 1 <= Len(s) /\ SubSeq(s, i, i + Len(lit) - 1) = lit

IndexIn(alphabet, c) ==
  IF \E k \in 1..Len(alphabet) : SubSeq(alphabet, k, k) = c
    THEN CHOOSE k \in 1..Len(alphabet) : SubSeq(alphabet, k, k) = c
    ELSE 0

IsDigit(c) == c # "" /\ IndexIn(Digits, c) # 0

\* ::toupper in the "C" locale: a..z are mapped, every other byte is kept.
toupper(c) ==
  IF IndexIn(LowerLetters, c) # 0
    THEN CharAt(UpperLetters, IndexIn(LowerLetters, c))
    ELSE c

\* ::tolower in the "C" locale.
tolower(c) ==
  IF IndexIn(UpperLetters, c) # 0
    THEN CharAt(LowerLetters, IndexIn(UpperLetters, c))
    ELSE c

RECURSIVE ToUpper(_)
\* std::transform(s.begin(), s.end(), s.begin(), ::toupper), every
\* character mapped in place (the string is halved to keep the evaluation
\* shallow).
ToUpper(s) ==
  IF Len(s) <= 1 THEN toupper(s)
  ELSE LET h == Len(s) \div 2 IN
       ToUpper(SubSeq(s, 1, h)) \o ToUpper(SubSeq(s, h + 1, Len(s)))

RECURSIVE ToLower(_)
\* std::transform(s.begin(), s.end(), s.begin(), ::tolower)
ToLower(s) ==
  IF Len(s) <= 1 THEN tolower(s)
  ELSE LET h == Len(s) \div 2 IN
       ToLower(SubSeq(s, 1, h)) \o ToLower(SubSeq(s, h + 1, Len(s)))

RECURSIVE Concat(_)
\* The texts of a sequence written one after the other.
Concat(texts) ==
  IF texts = <<>> THEN "" ELSE Head(texts) \o Concat(Tail(texts))

\* std::string::find(needle) != npos
Find(hay, needle) ==
  \E i \in 1..(Len(hay) - Len(needle) + 1) : StartsAt(hay, i, needle)

\* A local variable: v is computed once and is known as the argument of
\* Body in the rest of the function.
Let(v, Body(_)) == Body(v)

(***************************************************************************)
(* nlohmann::json::parse, for the part of the JSON grammar the modelled    *)
(* texts use: objects, arrays, strings with the escapes \" \\ \/ \n \t \r, *)
(* integers and decimal fractions, true, false, null.                      *)
(* A value is [t |-> type name, v |-> content]; an object's content is a   *)
(* function from its keys, an array's a sequence, any other a string.      *)
(***************************************************************************)
JsonWs == {" ", "\t", "\n", "\r"}

JString(x) == [t |-> "string", v |-> x]

JNumber(x) == [t |-> "number", v |-> x]

JBool(x) == [t |-> "boolean", v |-> x]

JNull == [t |-> "null", v |-> "null"]

JArray(x) == [t |-> "array", v |-> x]

JObject(f) == [t |-> "object", v |-> f]

EmptyMap == <<>>

ParseFail == [ok |-> FALSE, val |-> JNull, pos |-> 0]

ParseOk(val, pos) == [ok |-> TRUE, val |-> val, pos |-> pos]

\* The first position at or after i whose character is not in the set cs
\* (Len(s) + 1 when there is none).
SkipChars(s, i, cs) ==
  IF i > Len(s) THEN i
  ELSE CHOOSE k \in i..(Len(s) + 1) :
         /\ CharAt(s, k) \notin cs
         /\ \A m \in i..(k - 1) : CharAt(s, m) \in cs

SkipWs(s, i) == SkipChars(s, i, JsonWs)

\* The first position at or after i that holds character c (Len(s) + 1
\* when there is none).
FirstChar(s, i, c) ==
  IF i > Len(s) THEN i
  ELSE CHOOSE k \in i..(Len(s) + 1) :
         /\ (k <= Len(s) => CharAt(s, k) = c)
         /\ \A m \in i..(k - 1) : CharAt(s, m) # c

Escapes == {"\"", "\\", "/", "n", "t", "r"}

Unescape(e) ==
  IF e = "n" THEN "\n" ELSE IF e = "t" THEN "\t" ELSE IF e = "r" THEN "\r"
  ELSE e

RECURSIVE ScanString(_, _, _)
\* i is the position after the opening quote or after the last escape, acc
\* the characters read so far.  The run up to the next quote or backslash
\* is taken at once; a control character in it is an error.
ScanString(s, i, acc) ==
  Let(FirstChar(s, i, "\""), LAMBDA q :
  Let(FirstChar(s, i, "\\"), LAMBDA b :
  Let(IF q < b THEN q ELSE b, LAMBDA e :
  Let(SubSeq(s, i, e - 1), LAMBDA run :
    IF e > Len(s) THEN ParseFail
    ELSE IF \E m \in i..(e - 1) : CharAt(s, m) \in {"\n", "\t", "\r"}
      THEN ParseFail
    ELSE IF e = q THEN ParseOk(JString(acc \o run), q + 1)
    ELSE IF CharAt(s, b + 1) \in Escapes
      THEN ScanString(s, b + 2, acc \o run \o Unescape(CharAt(s, b + 1)))
    ELSE ParseFail))))

ScanDigits(s, i) == SkipChars(s, i, {SubSeq(Digits, k, k) : k \in 1..Len(Digits)})

ScanNumber(s, i) ==
  Let(IF CharAt(s, i) = "-" THEN i + 1 ELSE i, LAMBDA d :
  Let(ScanDigits(s, d), LAMBDA e :
  Let(IF CharAt(s, e) = "." THEN ScanDigits(s, e + 1) ELSE e, LAMBDA f :
    IF /\ e > d /\ (CharAt(s, d) = "0" => e = d + 1)
       /\ (CharAt(s, e) = "." => f > e + 1)
      THEN ParseOk(JNumber(SubSeq(s, i, f - 1)), f)
      ELSE ParseFail)))

ScanLiteral(s, i) ==
  IF StartsAt(s, i, "true") THEN ParseOk(JBool("true"), i + 4)
  ELSE IF StartsAt(s, i, "false") THEN ParseOk(JBool("false"), i + 5)
  ELSE IF StartsAt(s, i, "null") THEN ParseOk(JNull, i + 4)
  ELSE ParseFail

RECURSIVE ParseValue(_, _)
RECURSIVE ParseElements(_, _, _)
RECURSIVE ParseMembers(_, _, _)

\* i is at the first element of a non-empty array.
ParseElements(s, i, acc) ==
  Let(ParseValue(s, i), LAMBDA r :
    IF ~r.ok THEN ParseFail
    ELSE Let(SkipWs(s, r.pos), LAMBDA n :
      IF CharAt(s, n) = ","
        THEN ParseElements(s, SkipWs(s, n + 1), Append(acc, r.val))
      ELSE IF CharAt(s, n) = "]"
        THEN ParseOk(JArray(Append(acc, r.val)), n + 1)
      ELSE ParseFail))

\* i is at the first key of a non-empty object; a repeated key keeps the
\* value parsed last.
ParseMembers(s, i, acc) ==
  IF CharAt(s, i) # "\"" THEN ParseFail
  ELSE Let(ScanString(s, i + 1, ""), LAMBDA k :
    IF ~k.ok THEN ParseFail
    ELSE Let(SkipWs(s, k.pos), LAMBDA c :
      IF CharAt(s, c) # ":" THEN ParseFail
      ELSE Let(ParseValue(s, SkipWs(s, c + 1)), LAMBDA r :
        IF ~r.ok THEN ParseFail
        ELSE Let(SkipWs(s, r.pos), LAMBDA n :
             Let((k.val.v :> r.val) @@ acc, LAMBDA new :
               IF CharAt(s, n) = ","
                 THEN ParseMembers(s, SkipWs(s, n + 1), new)
               ELSE IF CharAt(s, n) = "}" THEN ParseOk(JObject(new), n + 1)
               ELSE ParseFail)))))

ParseValue(s, i) ==
  Let(CharAt(s, i), LAMBDA c :
  Let(SkipWs(s, i + 1), LAMBDA n :
    IF c = "{" THEN
      IF CharAt(s, n) = "}" THEN ParseOk(JObject(EmptyMap), n + 1)
      ELSE ParseMembers(s, n, EmptyMap)
    ELSE IF c = "[" THEN
      IF CharAt(s, n) = "]" THEN ParseOk(JArray(<<>>), n + 1)
      ELSE ParseElements(s, n, <<>>)
    ELSE IF c = "\"" THEN ScanString(s, i + 1, "")
    ELSE IF c = "-" \/ IsDigit(c) THEN ScanNumber(s, i)
    ELSE ScanLiteral(s, i)))

\* nlohmann::json::parse(text): one value, surrounded by whitespace only;
\* ok = FALSE stands for the parse_error it throws.
JsonParse(s) ==
  Let(ParseValue(s, SkipWs(s, 1)), LAMBDA r :
    IF r.ok /\ SkipWs(s, r.pos) = Len(s) + 1 THEN r ELSE ParseFail)

(***************************************************************************)
(* QueryParser (src/src/core/query_parser.cpp)                             *)
(***************************************************************************)
\* \s of the regular expression
ReWs == {" ", "\t", "\n", "\r", "\f"}

SkipReWs(s, i) == SkipChars(s, i, ReWs)

NoMatch == [found |-> FALSE, capture |-> ""]

\* A closing brace followed by optional white space and a fence.
ClosesAt(s, k) == CharAt(s, k) = "}" /\ StartsAt(s, SkipReWs(s, k + 1), FENCE)

\* [\s\S]*?\}\s*``` : the first such closing brace at or after position i;
\* 0 when there is none.
FindClose(s, i) ==
  IF \E k \in i..Len(s) : ClosesAt(s, k)
    THEN CHOOSE k \in i..Len(s) :
           ClosesAt(s, k) /\ \A m \in i..(k - 1) : ~ClosesAt(s, m)
    ELSE 0

\* \s*(\{[\s\S]*?\})\s*``` tried at position p
MatchBody(s, p) ==
  Let(SkipReWs(s, p), LAMBDA q :
    IF CharAt(s, q) # "{" THEN NoMatch
    ELSE Let(FindClose(s, q + 1), LAMBDA e :
      IF e = 0 THEN NoMatch
      ELSE [found |-> TRUE, capture |-> SubSeq(s, q, e)]))

\* The whole expression tried at position i; (?:json)? is matched without
\* regard to letter case (std::regex::icase).
MatchAt(s, i) ==
  IF ~StartsAt(s, i, FENCE) THEN NoMatch
  ELSE Let(IF i + 6 <= Len(s) /\ ToLower(SubSeq(s, i + 3, i + 6)) = "json"
             THEN MatchBody(s, i + 7) ELSE NoMatch,
           LAMBDA tagged :
             IF tagged.found THEN tagged ELSE MatchBody(s, i + 3))

\* std::regex_search(text, match, json_block): the leftmost match.
regex_search(s) ==
  Let({i \in 1..Len(s) : MatchAt(s, i).found}, LAMBDA starts :
    IF starts = {} THEN NoMatch
    ELSE MatchAt(s, CHOOSE i \in starts : \A m \in starts : i <= m))

RawOutputNotice == "Raw LLM output (no JSON detected)"

extractSQLFromResponse(text) ==
  Let(regex_search(text), LAMBDA match :
  Let(IF match.found THEN JsonParse(match.capture) ELSE ParseFail, LAMBDA block :
  Let(JsonParse(text), LAMBDA direct :
    IF match.found /\ block.ok THEN block.val
    ELSE IF direct.ok THEN direct.val
    ELSE JObject([sql |-> JString(text),
                  explanation |-> JString(RawOutputNotice)]))))

\* The search without the case folding of lines 84-86.
accessesSystemTables_CaseSensitive(sql) ==
  Find(sql, "INFORMATION_SCHEMA") \/ Find(sql, "PG_CATALOG")

accessesSystemTables(sql) ==
  LET upper_sql == ToUpper(sql) IN
  Find(upper_sql, "INFORMATION_SCHEMA") \/ Find(upper_sql, "PG_CATALOG")

ExplanationPhrases ==
  {"cannot generate query", "cannot create query", "unable to generate",
   "does not exist", "do not exist", "table not found", "column not found",
   "no such table", "no such column"}

WarningPhrases == {"error:", "does not exist", "do not exist"}

hasErrorIndicators(explanation, warnings) ==
  LET lower_explanation == ToLower(explanation) IN
  \/ \E ph \in ExplanationPhrases : Find(lower_explanation, ph)
  \/ \E i \in 1..Len(warnings) :
       \E ph \in WarningPhrases : Find(ToLower(warnings[i]), ph)

\* basic_json::value(key, default_value) with a default of type ty:
\* type_error 306 on a value that is not an object, the default when the key
\* is absent, type_error 302 when the member has another type.
value(j, key, default, ty) ==
  IF j.t # "object" THEN [thrown |-> "type_error.306", v |-> default]
  ELSE IF key \notin DOMAIN j.v THEN [thrown |-> "", v |-> default]
  ELSE IF j.v[key].t # ty THEN [thrown |-> "type_error.302", v |-> default]
  ELSE [thrown |-> "", v |-> j.v[key].v]

\* Lines 147-169: warnings as an array of strings or as one string; a
\* type_error raised by get<std::vector<std::string>>() is caught.
warnings_of(j) ==
  IF "warnings" \notin DOMAIN j.v THEN <<>>
  ELSE LET w == j.v["warnings"] IN
       IF w.t = "array"
         THEN IF \A i \in 1..Len(w.v) : w.v[i].t = "string"
                THEN [i \in 1..Len(w.v) |-> w.v[i].v]
                ELSE <<>>
       ELSE IF w.t = "string" THEN <<w.v>>
       ELSE <<>>

QueryResult(q, e, w, r, v, s, m) ==
  [generated_query |-> q, explanation |-> e, warnings |-> w,
   row_limit_applied |-> r, suggested_visualization |-> v,
   success |-> s, error_message |-> m]

NoResult == QueryResult("", "", <<>>, FALSE, "", FALSE, "")

SystemTablesMessage ==
  "Generated query accesses system tables. Please query user tables only."

\* The failure result that still carries the query text.
ErrorResult_KeepsQuery(sql, explanation, warnings_vec) ==
  QueryResult(sql, explanation, warnings_vec, FALSE, "", FALSE, explanation)

\* Lines 173-179: the model reported a failure.
ErrorResult(sql, explanation, warnings_vec) ==
  QueryResult("", explanation, warnings_vec, FALSE, "", FALSE, explanation)

\* Empty SQL reported as a failure.
EmptySqlResult_Failure(sql, explanation, warnings_vec) ==
  QueryResult("", explanation, warnings_vec, FALSE, "", FALSE,
              "No SQL query generated")

\* Lines 184-190: empty SQL, not an error.
EmptySqlResult(sql, explanation, warnings_vec) ==
  QueryResult("", explanation, warnings_vec, FALSE, "", TRUE, "")

\* The system-table failure that echoes the query and the explanation.
SystemTablesResult_Echo(sql, explanation, warnings_vec) ==
  QueryResult("", explanation, warnings_vec, FALSE, "", FALSE,
              "Generated query accesses system tables: " \o sql)

\* Lines 195-204: the query names a system table.
SystemTablesResult(sql, explanation, warnings_vec) ==
  QueryResult("", "", <<>>, FALSE, "", FALSE, SystemTablesMessage)

Returned(r) == [thrown |-> "", result |-> r]

Thrown(what) == [thrown |-> what, result |-> NoResult]

\* QueryParser::parseQueryResponse(response_text); thrown names the
\* exception that leaves the function, "" when it returns result.
parseQueryResponse(response_text) ==
  Let(extractSQLFromResponse(response_text), LAMBDA payload :
  Let(value(payload, "sql", "", "string"), LAMBDA sql :
  Let(value(payload, "explanation", "", "string"), LAMBDA explanation :
  Let(warnings_of(payload), LAMBDA warnings_vec :
  Let(value(payload, "row_limit_applied", "false", "boolean"), LAMBDA rla :
  Let(value(payload, "suggested_visualization", "table", "string"), LAMBDA viz :
    IF sql.thrown # "" THEN Thrown(sql.thrown)
    ELSE IF explanation.thrown # "" THEN Thrown(explanation.thrown)
    ELSE IF hasErrorIndicators(explanation.v, warnings_vec)
      THEN Returned(ErrorResult(sql.v, explanation.v, warnings_vec))
    ELSE IF sql.v = ""
      THEN Returned(EmptySqlResult(sql.v, explanation.v, warnings_vec))
    ELSE IF accessesSystemTables(sql.v)
      THEN Returned(SystemTablesResult(sql.v, explanation.v, warnings_vec))
    ELSE IF rla.thrown # "" THEN Thrown(rla.thrown)
    ELSE IF viz.thrown # "" THEN Thrown(viz.thrown)
    ELSE Returned(QueryResult(sql.v, explanation.v, warnings_vec,
                              rla.v = "true", viz.v, TRUE, ""))))))))

(***************************************************************************)
(* ConfigManager (src/src/config.cpp)                                      *)
(***************************************************************************)
OPENAI == "OPENAI"

ANTHROPIC == "ANTHROPIC"

GEMINI == "GEMINI"

UNKNOWN == "UNKNOWN"

PROVIDER_OPENAI == "openai"

PROVIDER_ANTHROPIC == "anthropic"

PROVIDER_UNKNOWN == "unknown"

SECTION_GENERAL == "general"

SECTION_QUERY == "query"

SECTION_RESPONSE == "response"

SECTION_OPENAI == "openai"

SECTION_ANTHROPIC == "anthropic"

DEFAULT_OPENAI_MODEL == "gpt-4o"

DEFAULT_ANTHROPIC_MODEL == "claude-sonnet-4-5-20250929"

DEFAULT_MAX_TOKENS == 4096

DEFAULT_ANTHROPIC_MAX_TOKENS == 8192

DEFAULT_TEMPERATURE == "0.7"

\* ProviderConfig::ProviderConfig(); a double is kept as its decimal text.
ProviderConfig ==
  [provider |-> UNKNOWN, api_key |-> "", default_model |-> "",
   default_max_tokens |-> 4096, default_temperature |-> "0.7",
   api_endpoint |-> ""]

\* Configuration::Configuration()
Configuration ==
  LET default_provider ==
        [ProviderConfig EXCEPT !.provider = OPENAI,
                               !.api_key = "",
                               !.default_model = DEFAULT_OPENAI_MODEL,
                               !.default_max_tokens = DEFAULT_MAX_TOKENS,
                               !.default_temperature = DEFAULT_TEMPERATURE]
  IN [default_provider |-> default_provider,
      providers |-> <<default_provider>>,
      log_level |-> "INFO",
      enable_logging |-> FALSE,
      request_timeout_ms |-> 30000,
      max_retries |-> 3,
      enforce_limit |-> TRUE,
      default_limit |-> 1000,
      show_explanation |-> TRUE,
      show_warnings |-> TRUE,
      show_suggested_visualization |-> FALSE,
      use_formatted_response |-> FALSE]

\* ConfigManager::getProviderConfigMutable and the search loop of
\* getProviderConfig: the index of the first entry of the provider, 0 for
\* nullptr.
FindProvider(config, provider) ==
  IF \E i \in 1..Len(config.providers) : config.providers[i].provider = provider
    THEN CHOOSE i \in 1..Len(config.providers) :
           /\ config.providers[i].provider = provider
           /\ \A m \in 1..(i - 1) : config.providers[m].provider # provider
    ELSE 0

BlankChars == {" ", "\t"}

\* The last position whose character is not in cs, 0 when there is none.
LastNotOf(s, cs) ==
  CHOOSE k \in 0..Len(s) :
    /\ (k > 0 => CharAt(s, k) \notin cs)
    /\ \A m \in (k + 1)..Len(s) : CharAt(s, m) \in cs

\* s.erase(0, s.find_first_not_of(" \t"));
\* s.erase(s.find_last_not_of(" \t") + 1);
Trim(s) ==
  LET first == SkipChars(s, 1, BlankChars)
      last  == LastNotOf(s, BlankChars)
  IN IF first > last THEN "" ELSE SubSeq(s, first, last)

RECURSIVE Lines(_)
\* The lines std::getline reads from the content.
Lines(content) ==
  IF content = "" THEN <<>>
  ELSE Let(FirstChar(content, 1, "\n"), LAMBDA n :
         <<SubSeq(content, 1, n - 1)>>
           \o (IF n >= Len(content) THEN <<>>
               ELSE Lines(SubSeq(content, n + 1, Len(content)))))

RECURSIVE ToNat(_)
ToNat(ds) ==
  IF ds = "" THEN 0
  ELSE ToNat(SubSeq(ds, 1, Len(ds) - 1)) * 10
       + (IndexIn(Digits, CharAt(ds, Len(ds))) - 1)

SpaceChars == {" ", "\t", "\n", "\r", "\f"}

\* The number a run of at most ten significant digits stands for, when it
\* fits an int; last is the tenth digit.
IntOf(neg, sig) ==
  Let(ToNat(IF Len(sig) <= 9 THEN sig ELSE SubSeq(sig, 1, 9)), LAMBDA n9 :
  Let(IndexIn(Digits, CharAt(sig, 10)) - 1, LAMBDA last :
    IF Len(sig) <= 9
      THEN [thrown |-> "", v |-> IF neg THEN 0 - n9 ELSE n9]
    ELSE IF /\ Len(sig) = 10
            /\ \/ n9 < 214748364
               \/ n9 = 214748364 /\ last <= (IF neg THEN 8 ELSE 7)
      THEN [thrown |-> "",
            v |-> IF neg THEN (0 - n9) * 10 - last ELSE n9 * 10 + last]
    ELSE [thrown |-> "out_of_range", v |-> 0]))

\* std::stoi(value): white space, an optional sign, decimal digits; what
\* follows the digits is ignored.  thrown is "invalid_argument" when there
\* is no digit and "out_of_range" when the number does not fit an int.
stoi(val) ==
  Let(SkipChars(val, 1, SpaceChars), LAMBDA p :
  Let(IF CharAt(val, p) \in {"-", "+"} THEN p + 1 ELSE p, LAMBDA d :
  Let(ScanDigits(val, d), LAMBDA e :
  Let(SkipChars(val, d, {"0"}), LAMBDA z :
    IF e = d THEN [thrown |-> "invalid_argument", v |-> 0]
    ELSE IntOf(CharAt(val, p) = "-",
               IF z >= e THEN "" ELSE SubSeq(val, z, e - 1))))))

\* std::stod(value) for decimal numbers without exponent: the text of the
\* number read.
stod(val) ==
  Let(SkipChars(val, 1, SpaceChars), LAMBDA p :
  Let(IF CharAt(val, p) \in {"-", "+"} THEN p + 1 ELSE p, LAMBDA d :
  Let(ScanDigits(val, d), LAMBDA e :
  Let(IF CharAt(val, e) = "." THEN ScanDigits(val, e + 1) ELSE e, LAMBDA f :
    IF e > d \/ f > e + 1
      THEN [thrown |-> "", v |-> SubSeq(val, p, f - 1)]
      ELSE [thrown |-> "invalid_argument", v |-> ""]))))

\* The keys of a provider section applied to entry i of the providers.
SetProviderKey(config, i, key, val) ==
  IF key = "api_key"
    THEN [thrown |-> "", config |-> [config EXCEPT !.providers[i].api_key = val]]
  ELSE IF key = "default_model"
    THEN [thrown |-> "",
          config |-> [config EXCEPT !.providers[i].default_model = val]]
  ELSE IF key = "max_tokens"
    THEN Let(stoi(val), LAMBDA int :
           IF int.thrown # "" THEN [thrown |-> int.thrown, config |-> config]
           ELSE [thrown |-> "",
                 config |-> [config EXCEPT
                               !.providers[i].default_max_tokens = int.v]])
  ELSE IF key = "temperature"
    THEN Let(stod(val), LAMBDA dbl :
           IF dbl.thrown # "" THEN [thrown |-> dbl.thrown, config |-> config]
           ELSE [thrown |-> "",
                 config |-> [config EXCEPT
                               !.providers[i].default_temperature = dbl.v]])
  ELSE IF key = "api_endpoint"
    THEN [thrown |-> "",
          config |-> [config EXCEPT !.providers[i].api_endpoint = val]]
  ELSE [thrown |-> "", config |-> config]

\* An integer key: field f of the configuration set from std::stoi(value).
SetInt(config, f, val) ==
  Let(stoi(val), LAMBDA int :
    IF int.thrown # "" THEN [thrown |-> int.thrown, config |-> config]
    ELSE [thrown |-> "", config |-> [config EXCEPT ![f] = int.v]])

SetField(config, f, v) == [thrown |-> "", config |-> [config EXCEPT ![f] = v]]

\* The configuration with an entry for the provider: the one it has, or a
\* new one appended (lines 195-202 and 216-225).
WithProvider(config, provider, model, max_tokens) ==
  IF FindProvider(config, provider) # 0 THEN config
  ELSE [config EXCEPT !.providers = Append(@,
          [ProviderConfig EXCEPT !.provider = provider,
                                 !.default_model = model,
                                 !.default_max_tokens = max_tokens])]

\* Lines 170-237: one key = value pair in the current section.  A provider
\* entry is created before the key is looked at, so it stays when the
\* conversion of the value throws.
AssignKey(config, current_section, key, val) ==
  IF current_section = SECTION_GENERAL THEN
    IF key = "log_level" THEN SetField(config, "log_level", val)
    ELSE IF key = "enable_logging"
      THEN SetField(config, "enable_logging", val = "true")
    ELSE IF key \in {"request_timeout_ms", "max_retries"}
      THEN SetInt(config, key, val)
    ELSE [thrown |-> "", config |-> config]
  ELSE IF current_section = SECTION_QUERY THEN
    IF key = "enforce_limit"
      THEN SetField(config, "enforce_limit", val = "true")
    ELSE IF key = "default_limit" THEN SetInt(config, "default_limit", val)
    ELSE [thrown |-> "", config |-> config]
  ELSE IF current_section = SECTION_RESPONSE THEN
    IF key \in {"show_explanation", "show_warnings",
                "show_suggested_visualization", "use_formatted_response"}
      THEN SetField(config, key, val = "true")
    ELSE [thrown |-> "", config |-> config]
  ELSE IF current_section = SECTION_OPENAI THEN
    Let(WithProvider(config, OPENAI, DEFAULT_OPENAI_MODEL,
                     ProviderConfig.default_max_tokens),
        LAMBDA with :
          SetProviderKey(with, FindProvider(with, OPENAI), key, val))
  ELSE IF current_section = SECTION_ANTHROPIC THEN
    Let(WithProvider(config, ANTHROPIC, DEFAULT_ANTHROPIC_MODEL,
                     DEFAULT_ANTHROPIC_MAX_TOKENS),
        LAMBDA with :
          SetProviderKey(with, FindProvider(with, ANTHROPIC), key, val))
  ELSE [thrown |-> "", config |-> config]

\* value with one pair of enclosing double quotes removed (lines 166-168).
Unquote(val) ==
  IF Len(val) >= 2 /\ CharAt(val, 1) = "\"" /\ CharAt(val, Len(val)) = "\""
    THEN SubSeq(val, 2, Len(val) - 1)
    ELSE val

\* Lines 140-237: one line of the file.  acc holds the configuration, the
\* current section and the exception that ended the parse, if any.
ParseLine(acc, raw) ==
  Let(Trim(raw), LAMBDA line :
  Let(FirstChar(line, 1, "="), LAMBDA eq_pos :
    IF acc.thrown # "" THEN acc
    ELSE IF line = "" \/ CharAt(line, 1) = "#" THEN acc
    ELSE IF CharAt(line, 1) = "[" /\ CharAt(line, Len(line)) = "]"
      THEN [acc EXCEPT !.section = SubSeq(line, 2, Len(line) - 1)]
    ELSE IF eq_pos > Len(line) THEN acc
    ELSE Let(AssignKey(acc.config, acc.section,
                       Trim(SubSeq(line, 1, eq_pos - 1)),
                       Unquote(Trim(SubSeq(line, eq_pos + 1, Len(line))))),
             LAMBDA set :
               [acc EXCEPT !.config = set.config, !.thrown = set.thrown])))

RECURSIVE ParseLines(_, _)
ParseLines(acc, lines) ==
  IF lines = <<>> THEN acc
  ELSE ParseLines(ParseLine(acc, Head(lines)), Tail(lines))

\* ConfigManager::parseConfig(content): config is the value config_ is left
\* with, thrown the exception that leaves the function ("" when it returns
\* true).
parseConfig(content) ==
  Let(ParseLines([config |-> Configuration, section |-> "", thrown |-> ""],
                 Lines(content)),
      LAMBDA acc :
        IF acc.thrown # "" THEN [thrown |-> acc.thrown, config |-> acc.config]
        ELSE [thrown |-> "",
              config |-> IF acc.config.providers # <<>>
                           THEN [acc.config EXCEPT
                                   !.default_provider = acc.config.providers[1]]
                           ELSE acc.config])

\* std::string::find(needle): the 0-based position, -1 for npos.
FindPos(hay, needle) ==
  IF Find(hay, needle)
    THEN (CHOOSE i \in 1..(Len(hay) - Len(needle) + 1) :
            /\ StartsAt(hay, i, needle)
            /\ \A m \in 1..(i - 1) : ~StartsAt(hay, m, needle)) - 1
    ELSE -1

\* Has(j, key): j.contains(key)
Has(jv, key) == jv.t = "object" /\ key \in DOMAIN jv.v

\* Lines 148-161 of formatAPIError: the message of a not_found_error.
ModelNotFound(msg) ==
  Let(FindPos(msg, "model:"), LAMBDA model_pos :
    IF model_pos = -1
      THEN [thrown |-> "",
            v |-> "Model not found. Please check your model configuration "
                    \o "and ensure you're using a valid model name."]
    ELSE IF model_pos + 7 > Len(msg)
      THEN [thrown |-> "basic_string::substr", v |-> ""]
    ELSE [thrown |-> "",
          v |-> "Invalid model '"
                  \o Trim(SubSeq(msg, model_pos + 8, Len(msg)))
                  \o "'. Please check your configuration and use a valid "
                  \o "model name. Common models: "
                  \o "'claude-sonnet-4-5-20250929' (Anthropic), "
                  \o "'gpt-4o' (OpenAI)."])

\* utils::formatAPIError(raw_error): v is the line returned, thrown the
\* exception that is no nlohmann::json::exception and so leaves it.
formatAPIError(raw_error) ==
  Let(FirstChar(raw_error, 1, "{"), LAMBDA json_start :
  Let(JsonParse(IF json_start <= Len(raw_error)
                  THEN SubSeq(raw_error, json_start, Len(raw_error))
                  ELSE raw_error),
      LAMBDA parsed :
    IF ~parsed.ok \/ ~Has(parsed.val, "error")
      THEN [thrown |-> "", v |-> raw_error]
    ELSE Let(parsed.val.v["error"], LAMBDA error_obj :
      IF Has(error_obj, "type")
           /\ error_obj.v["type"].t = "string"
           /\ error_obj.v["type"].v = "not_found_error"
        THEN IF ~Has(error_obj, "message")
               THEN ModelNotFound("")
             ELSE IF error_obj.v["message"].t # "string"
               THEN [thrown |-> "", v |-> raw_error]
             ELSE ModelNotFound(error_obj.v["message"].v)
      ELSE IF Has(error_obj, "message")
                /\ error_obj.v["message"].t = "string"
        THEN [thrown |-> "", v |-> error_obj.v["message"].v]
      ELSE [thrown |-> "", v |-> raw_error])))

\* ConfigManager::providerToString
providerToString(provider) ==
  IF provider = OPENAI THEN PROVIDER_OPENAI
  ELSE IF provider = ANTHROPIC THEN PROVIDER_ANTHROPIC
  ELSE PROVIDER_UNKNOWN

\* ConfigManager::stringToProvider
stringToProvider(provider_str) ==
  Let(ToLower(provider_str), LAMBDA lower :
    IF lower = PROVIDER_OPENAI THEN OPENAI
    ELSE IF lower = PROVIDER_ANTHROPIC THEN ANTHROPIC
    ELSE UNKNOWN)

\* The static members config_ and config_loaded_ as one value, so that the
\* functions below can hand the store on from call to call.
Store(config, loaded) == [config_ |-> config, config_loaded_ |-> loaded]

\* ConfigManager::loadEnvConfig(): environ is the environment variables of
\* the process; the function reads none of them.
loadEnvConfig(config, environ) == config

\* The load that marks the store loaded only after a parse.
loadConfig_path_FlagOnlyOnParse(store, read, environ) ==
  IF ~read.first
    THEN [store |-> store, ret |-> TRUE, thrown |-> ""]
    ELSE Let(parseConfig(read.second), LAMBDA parsed :
           IF parsed.thrown # ""
             THEN [store |-> [store EXCEPT !.config_ = parsed.config],
                   ret |-> FALSE, thrown |-> parsed.thrown]
             ELSE [store |-> Store(loadEnvConfig(parsed.config, environ),
                                   TRUE),
                   ret |-> TRUE, thrown |-> ""])

\* ConfigManager::loadConfig(config_path); read is what utils::read_file
\* returns for the path.  parseConfig assigns config_ before it reads the
\* first line, so an exception leaves what was parsed until then.
loadConfig_path(store, read, environ) ==
  IF ~read.first
    THEN [store |-> [store EXCEPT !.config_loaded_ = TRUE],
          ret |-> TRUE, thrown |-> ""]
    ELSE Let(parseConfig(read.second), LAMBDA parsed :
           IF parsed.thrown # ""
             THEN [store |-> [store EXCEPT !.config_ = parsed.config],
                   ret |-> FALSE, thrown |-> parsed.thrown]
             ELSE [store |-> Store(loadEnvConfig(parsed.config, environ),
                                   TRUE),
                   ret |-> TRUE, thrown |-> ""])

\* ConfigManager::loadConfig(); env holds what getHomeDirectory returns and
\* what read_file returns for the file in that directory.
loadConfig(store, env) ==
  IF env.home_dir = ""
    THEN [store |-> store, ret |-> FALSE, thrown |-> ""]
    ELSE loadConfig_path(store, env.read, env.environ)

\* ConfigManager::reset
reset == Store(Configuration, FALSE)

\* ConfigManager::getConfig(): the value returned is config_ of the store
\* handed back.
getConfig(store, env) ==
  Let(IF ~store.config_loaded_ THEN loadConfig(store, env)
      ELSE [store |-> store, ret |-> TRUE, thrown |-> ""],
      LAMBDA load : [store |-> load.store, thrown |-> load.thrown])

\* ConfigManager::getProviderConfig(provider): ptr is the index of the entry
\* returned, 0 for nullptr.
getProviderConfig(store, env, provider) ==
  Let(IF ~store.config_loaded_ THEN loadConfig(store, env)
      ELSE [store |-> store, ret |-> TRUE, thrown |-> ""],
      LAMBDA load :
        [store |-> load.store, thrown |-> load.thrown,
         ptr |-> IF load.thrown # "" THEN 0
                 ELSE FindProvider(load.store.config_, provider)])

(***************************************************************************)
(* ProviderSelector (src/unnamed/part_006)                                 *)
(***************************************************************************)
\* struct ProviderSelectionResult, default constructed.  config is the
\* index of the entry pointed to, 0 for nullptr.
ProviderSelectionResult ==
  [provider |-> OPENAI, config |-> 0, api_key |-> "", api_key_source |-> "",
   success |-> FALSE, error_message |-> ""]

\* What a selector function hands back: the store after its calls, and the
\* result it returned unless an exception left it.
Selected(store, sel) == [store |-> store, thrown |-> "", result |-> sel]

SelectionThrown(store, what) ==
  [store |-> store, thrown |-> what, result |-> ProviderSelectionResult]

\* An entry without a key read as holding a placeholder key.
ApiKeyOf_Placeholder(get) ==
  IF get.ptr = 0 THEN ""
  ELSE IF get.store.config_.providers[get.ptr].api_key = "" THEN "<unset>"
  ELSE get.store.config_.providers[get.ptr].api_key

ApiKeyOf(get) ==
  IF get.ptr = 0 THEN "" ELSE get.store.config_.providers[get.ptr].api_key

\* The explicit selection that prefers the configured key to the one passed.
selectExplicitProvider_ConfigFirst(store, env, api_key, provider) ==
  Let(getProviderConfig(store, env, provider), LAMBDA get :
  Let([ProviderSelectionResult EXCEPT
         !.provider = provider, !.config = get.ptr, !.success = TRUE],
      LAMBDA base :
    IF get.thrown # "" THEN SelectionThrown(get.store, get.thrown)
    ELSE IF ApiKeyOf(get) # ""
      THEN Selected(get.store,
             [base EXCEPT !.api_key = ApiKeyOf(get),
                          !.api_key_source =
                             providerToString(provider) \o "_config"])
    ELSE IF api_key # ""
      THEN Selected(get.store,
             [base EXCEPT !.api_key = api_key, !.api_key_source = "parameter"])
    ELSE Selected(get.store,
           [base EXCEPT !.success = FALSE,
                        !.error_message = "No API key available"])))

\* ProviderSelector::selectExplicitProvider
selectExplicitProvider(store, env, api_key, provider) ==
  Let(getProviderConfig(store, env, provider), LAMBDA get :
  Let(providerToString(provider), LAMBDA provider_name :
  Let([ProviderSelectionResult EXCEPT
         !.provider = provider, !.config = get.ptr, !.success = TRUE],
      LAMBDA base :
  Let(IF api_key # ""
        THEN [base EXCEPT !.api_key = api_key, !.api_key_source = "parameter"]
      ELSE IF get.ptr # 0 /\ ApiKeyOf(get) # ""
        THEN [base EXCEPT !.api_key = ApiKeyOf(get),
                          !.api_key_source = provider_name \o "_config"]
      ELSE base,
      LAMBDA keyed :
        IF get.thrown # "" THEN SelectionThrown(get.store, get.thrown)
        ELSE IF keyed.api_key = ""
          THEN Selected(get.store,
                 [keyed EXCEPT
                    !.success = FALSE,
                    !.error_message =
                       "No API key available for " \o provider_name
                       \o " provider. Please provide API key as parameter "
                       \o "or configure it in ~/.pg_ai.config."])
        ELSE Selected(get.store, keyed)))))

\* An automatic selection that hands back the Anthropic entry with OpenAI.
autoSelectFromParameter_OtherEntry(store, env, api_key) ==
  Let(getProviderConfig(store, env, ANTHROPIC), LAMBDA get :
    IF get.thrown # "" THEN SelectionThrown(get.store, get.thrown)
    ELSE Selected(get.store,
           [ProviderSelectionResult EXCEPT
              !.provider = OPENAI, !.config = get.ptr, !.api_key = api_key,
              !.api_key_source = "parameter", !.success = TRUE]))

\* autoSelectProvider, lines 61-72: an API key was passed.
autoSelectFromParameter(store, env, api_key) ==
  Let(getProviderConfig(store, env, OPENAI), LAMBDA get :
    IF get.thrown # "" THEN SelectionThrown(get.store, get.thrown)
    ELSE Selected(get.store,
           [ProviderSelectionResult EXCEPT
              !.provider = OPENAI, !.config = get.ptr, !.api_key = api_key,
              !.api_key_source = "parameter", !.success = TRUE]))

FromConfig(get, provider, source) ==
  Selected(get.store,
    [ProviderSelectionResult EXCEPT
       !.provider = provider, !.config = get.ptr, !.api_key = ApiKeyOf(get),
       !.api_key_source = source, !.success = TRUE])

\* autoSelectProvider, lines 74-118: no API key was passed.
autoSelectFromConfig(store, env) ==
  Let(getProviderConfig(store, env, OPENAI), LAMBDA openai_config :
    IF openai_config.thrown # ""
      THEN SelectionThrown(openai_config.store, openai_config.thrown)
    ELSE IF ApiKeyOf(openai_config) # ""
      THEN FromConfig(openai_config, OPENAI, "openai_config")
    ELSE
  Let(getProviderConfig(openai_config.store, env, ANTHROPIC),
      LAMBDA anthropic_config :
    IF anthropic_config.thrown # ""
      THEN SelectionThrown(anthropic_config.store, anthropic_config.thrown)
    ELSE IF ApiKeyOf(anthropic_config) # ""
      THEN FromConfig(anthropic_config, ANTHROPIC, "anthropic_config")
    ELSE
  Let(getProviderConfig(anthropic_config.store, env, GEMINI),
      LAMBDA gemini_config :
    IF gemini_config.thrown # ""
      THEN SelectionThrown(gemini_config.store, gemini_config.thrown)
    ELSE IF ApiKeyOf(gemini_config) # ""
      THEN FromConfig(gemini_config, GEMINI, "gemini_config")
    ELSE Selected(gemini_config.store,
           [ProviderSelectionResult EXCEPT
              !.success = FALSE,
              !.error_message =
                 "API key required. Pass as parameter or set OpenAI, "
                 \o "Anthropic, or Gemini API key in ~/.pg_ai.config."]))))

autoSelectProvider_ConfigOnly(store, env, api_key) ==
  autoSelectFromConfig(store, env)

\* ProviderSelector::autoSelectProvider
autoSelectProvider(store, env, api_key) ==
  IF api_key # "" THEN autoSelectFromParameter(store, env, api_key)
  ELSE autoSelectFromConfig(store, env)

selectProvider_CaseInsensitive(store, env, api_key, provider_preference) ==
  IF ToLower(provider_preference) = "openai"
    THEN selectExplicitProvider(store, env, api_key, OPENAI)
  ELSE IF ToLower(provider_preference) = "anthropic"
    THEN selectExplicitProvider(store, env, api_key, ANTHROPIC)
  ELSE IF ToLower(provider_preference) = "gemini"
    THEN selectExplicitProvider(store, env, api_key, GEMINI)
  ELSE autoSelectProvider(store, env, api_key)

\* ProviderSelector::selectProvider
selectProvider(store, env, api_key, provider_preference) ==
  IF provider_preference = "openai"
    THEN selectExplicitProvider(store, env, api_key, OPENAI)
  ELSE IF provider_preference = "anthropic"
    THEN selectExplicitProvider(store, env, api_key, ANTHROPIC)
  ELSE IF provider_preference = "gemini"
    THEN selectExplicitProvider(store, env, api_key, GEMINI)
  ELSE autoSelectProvider(store, env, api_key)

(***************************************************************************)
(* Configuration files, inline API keys and provider preferences the       *)
(* callers use.  Each list has one entry more than its bound.              *)
(***************************************************************************)
NumFiles == 6

NumPreferences == 7

NumApiKeys == 1

\* A configuration file whose only credential is a Gemini key.
GeminiOnlyFile == "[gemini]\napi_key = AIzaSy-gemini-key\n"

ConfigFiles ==
  << "[general]\nlog_level = DEBUG\nrequest_timeout_ms = 60000\n\n"
       \o "[openai]\napi_key = \"sk-test-openai-key-12345\"\n\n"
       \o "[anthropic]\napi_key = sk-ant-test\nmax_tokens = 2048\n",
     "# Anthropic only\n[anthropic]\napi_key = sk-ant-only-key\n",
     "[query]\nenforce_limit = false\n[response]\nshow_explanation = false\n"
       \o "[anthropic]\ndefault_model = claude-3-opus-20240229\n",
     GeminiOnlyFile,
     "[openai]\napi_key = sk-before-error\n"
       \o "[general]\nrequest_timeout_ms = abc\nmax_retries = 9\n",
     "[openai]\napi_key = \"\"\ndefault_model = gpt-4\n"
       \o "[anthropic]\n  api_key  =  \"sk-ant-2\"  \n"
       \o "[anthropic]\ntemperature = 0.2",
     "[openai]\napi_key = sk-minimal-test-key\n" >>

Preferences ==
  << "", "auto", "openai", "anthropic", "gemini", "OPENAI", "mistral",
     "Gemini" >>

ApiKeys == << "sk-param-key", "sk-other-key" >>

\* What utils::read_file returns: a path that cannot be read, or one of
\* the files.
ReadResults ==
  {[first |-> FALSE, second |-> ""]}
    \cup {[first |-> TRUE, second |-> ConfigFiles[i]] : i \in 1..NumFiles}

\* The API keys the environment variables of the process may hold.
NoEnvVars == [OPENAI_API_KEY |-> "", ANTHROPIC_API_KEY |-> ""]

EnvVars ==
  {NoEnvVars,
   [OPENAI_API_KEY |-> "sk-env-openai", ANTHROPIC_API_KEY |-> "sk-ant-env"]}

\* The process environment of a default load: no home directory, or a home
\* directory whose configuration file reads as one of ReadResults.
Environments ==
  {[home_dir |-> "", read |-> [first |-> FALSE, second |-> ""],
    environ |-> NoEnvVars]}
    \cup {[home_dir |-> "/home/postgres", read |-> r, environ |-> e] :
            r \in ReadResults, e \in EnvVars}

(***************************************************************************)
(* Provider responses handed to parseQueryResponse.  A response is either  *)
(* one of RawTexts or an object written member by member, alone or inside  *)
(* a fenced block with prose around it.  Each member is the JSON text the  *)
(* provider wrote for it, "" when the member is left out.                  *)
(***************************************************************************)
NumSql == 5

NumExplanation == 4

NumWarnings == 4

NumRowLimit == 3

NumVisualization == 2

NumForms == 2

NumRaw == 9

SqlTexts ==
  << "",
     "\"\"",
     "\"SELECT * FROM users WHERE id = 1\"",
     "\"SELECT * FROM Information_Schema.tables\"",
     "null",
     "\"select relname from PG_CATALOG.pg_class\"" >>

ExplanationTexts ==
  << "",
     "\"Lists all tables\"",
     "\"Cannot generate query: Table 'foo' does not exist\"",
     "\"Wrap it as " \o FENCE \o "{x}" \o FENCE \o " if needed\"",
     "17" >>

WarningsTexts ==
  << "",
     "[\"May be slow\", \"Add LIMIT\"]",
     "\"Column 'foo' Does Not Exist\"",
     "[1, \"Add LIMIT\"]",
     "{\"note\": \"ERROR: none\"}" >>

RowLimitTexts == << "", "true", "\"yes\"", "false" >>

VisualizationTexts == << "", "\"bar\"", "3" >>

Forms == << "direct", "fenced", "fenced_untagged" >>

RawTexts ==
  << "SELECT id, name FROM customers",
     "select * from pg_catalog.pg_tables",
     "I am unable to generate a query for this",
     "42",
     "null",
     "[\"SELECT 1\"]",
     "\"SELECT 1\"",
     "{\"sql\": \"SELECT 1\"",
     FENCE \o "json\n{sql: SELECT 1}\n" \o FENCE,
     FENCE \o "\n{not json}\n" \o FENCE \o " then " \o FENCE \o
       "json\n{\"sql\": \"SELECT 2\"}\n" \o FENCE >>

Emissions ==
  [form : {"raw"}, raw : 1..NumRaw, sql : {1}, explanation : {1},
   warnings : {1}, row_limit_applied : {1}, suggested_visualization : {1}]
  \cup
  [form : {Forms[k] : k \in 1..NumForms}, raw : {1}, sql : 1..NumSql,
   explanation : 1..NumExplanation, warnings : 1..NumWarnings,
   row_limit_applied : 1..NumRowLimit,
   suggested_visualization : 1..NumVisualization]

Member(key, text) ==
  IF text = "" THEN <<>> ELSE << "\"" \o key \o "\": " \o text >>

RECURSIVE Join(_)
Join(parts) ==
  IF parts = <<>> THEN ""
  ELSE IF Len(parts) = 1 THEN parts[1]
  ELSE parts[1] \o ",\n  " \o Join(Tail(parts))

\* The object the provider wrote, as text.
ObjectText(e) ==
  LET parts == Member("sql", SqlTexts[e.sql])
               \o Member("explanation", ExplanationTexts[e.explanation])
               \o Member("warnings", WarningsTexts[e.warnings])
               \o Member("row_limit_applied", RowLimitTexts[e.row_limit_applied])
               \o Member("suggested_visualization",
                         VisualizationTexts[e.suggested_visualization])
  IN IF parts = <<>> THEN "{}" ELSE "{\n  " \o Join(parts) \o "\n}"

\* The whole response text.
ResponseText(e) ==
  IF e.form = "raw" THEN RawTexts[e.raw]
  ELSE IF e.form = "direct" THEN ObjectText(e)
  ELSE IF e.form = "fenced"
    THEN "Here is the query:\n\n" \o FENCE \o "JSON\n" \o ObjectText(e)
         \o "\n" \o FENCE \o "\n\nLet me know if you need changes."
  ELSE FENCE \o "\n" \o ObjectText(e) \o "\n" \o FENCE

(***************************************************************************)
(* State                                                                   *)
(***************************************************************************)
VARIABLES
  emitted,                    \* how the provider wrote the response
  response_text,              \* argument of parseQueryResponse
  allow_system_table_access,  \* what the caller wants for system tables
  parse_pc,                   \* "call", then "returned" or "thrown"
  j,                          \* the payload extracted at line 143
  thrown,                     \* the exception leaving parseQueryResponse
  result,                     \* the QueryResult it returned
  config_,                    \* ConfigManager::config_
  config_loaded_,             \* ConfigManager::config_loaded_
  op,                         \* the last call made on the store or selector
  api_key,                    \* arguments of the last selectProvider
  provider_preference,
  call_pc,                    \* "idle", "returned" or "thrown"
  load_returned,              \* what the last loadConfig returned
  lazy_load,                  \* the last call ran the default load
  loaded_since_reset,         \* a load returned true since start or reset
  threads,                    \* each thread's call and position in it
  observed,                   \* the configuration a thread's get returned
  gen,                        \* the locals of generateQuery and its position
  fcall,                      \* a call of a function that keeps no state
  selection                   \* what the last selectProvider returned

parser_vars ==
  <<emitted, response_text, allow_system_table_access, parse_pc, j, thrown,
    result>>

store_vars == <<config_, config_loaded_>>

call_vars ==
  <<op, api_key, provider_preference, call_pc, load_returned, lazy_load,
    loaded_since_reset, selection>>

thread_vars == <<threads, observed>>

gen_vars == <<gen, fcall>>

vars == <<parser_vars, store_vars, call_vars, thread_vars, gen_vars>>

\* Threads of the process that call ConfigManager; ConfigFiles[1..
\* NumThreadFiles] are the files their loads may read.
NumThreads == 2
NumThreadFiles == 1

\* A thread outside any call: lines and section are the locals of
\* parseConfig.
ThreadIdle == [pc |-> "idle", call |-> "none", lines |-> <<>>, section |-> ""]

ThreadsIdle ==
  /\ threads = [t \in 1..NumThreads |-> ThreadIdle]
  /\ observed = Configuration

\* The requests, provider errors and provider texts of generateQuery.
NumRequests == 3
NumApiErrors == 2
NumReplies == 3

NaturalLanguages ==
  << "", "   ", "show the names of all customers", " \t\n", "list orders" >>

ApiErrors ==
  << "connection refused",
     "404 {\"error\": {\"type\": \"not_found_error\", "
       \o "\"message\": \"model: gpt-5\"}}",
     "401 {\"error\": {\"message\": \"Invalid API key\"}}" >>

Replies ==
  << "{\"sql\": \"SELECT name FROM customers\", "
       \o "\"explanation\": \"Lists the names\"}",
     "{\"sql\": \"SELECT * FROM pg_catalog.pg_tables\"}",
     "[\"SELECT 1\"]",
     "SELECT id, name FROM customers" >>

Requests ==
  [natural_language : {NaturalLanguages[k] : k \in 1..NumRequests},
   api_key : {"", ApiKeys[1]},
   provider : {Preferences[k] : k \in 1..NumPreferences}]

\* generateQuery before it is called.
GenIdle ==
  [pc |-> "idle",
   request |-> [natural_language |-> "", api_key |-> "", provider |-> ""],
   env |-> [home_dir |-> "", read |-> [first |-> FALSE, second |-> ""],
            environ |-> NoEnvVars],
   selection |-> ProviderSelectionResult,
   prompt |-> "", response |-> "", generate_calls |-> 0,
   steps |-> <<>>, escaped |-> "", result |-> NoResult]

\* The providers and the names handed to providerToString and
\* stringToProvider.
NumProviderNames == 9

Providers == {OPENAI, ANTHROPIC, GEMINI, UNKNOWN}

ProviderNames ==
  << "openai", "OPENAI", "OpenAI", "anthropic", "Anthropic", "gemini",
     "Gemini", "unknown", "", "invalid", "ANTHROPIC" >>

\* The results and the flags handed to ResponseFormatter::formatResponse.
NumFormatQueries == 2
NumFormatExplanations == 2
NumFormatWarnings == 3
NumFormatVisualizations == 2

FormatQueries == << "", "SELECT name FROM \"Users\"", "SELECT 1" >>

FormatExplanations == << "", "Lists the names", "Tab\there" >>

FormatWarnings ==
  << <<>>, <<"May be slow">>, <<"May be slow", "Add LIMIT">>,
     <<"", "No index">> >>

FormatVisualizations == << "", "bar", "table" >>

FormatResults ==
  {QueryResult(FormatQueries[q], FormatExplanations[e], FormatWarnings[w],
               r, FormatVisualizations[v], s, "") :
     q \in 1..NumFormatQueries, e \in 1..NumFormatExplanations,
     w \in 1..NumFormatWarnings, v \in 1..NumFormatVisualizations,
     r \in BOOLEAN, s \in BOOLEAN}

FormatConfigs ==
  {[Configuration EXCEPT !.show_explanation = e, !.show_warnings = w,
                         !.show_suggested_visualization = v,
                         !.use_formatted_response = f] :
     e \in BOOLEAN, w \in BOOLEAN, v \in BOOLEAN, f \in BOOLEAN}

\* The catalog and the request texts of buildPrompt.
NumTables == 4
NumPromptTexts == 2

TableNames == << "orders", "customers", "order", "items", "users" >>

PromptTexts ==
  << "orders and customers with items",
     "list users",
     "count order items per customers" >>

Listings ==
  {[outcome |-> o, tables |-> <<>>] : o \in {"failed", "thrown"}}
    \cup {[outcome |-> "ok", tables |-> SubSeq(TableNames, 1, n)] :
            n \in 0..NumTables}

DetailAnswers ==
  [{TableNames[k] : k \in 1..NumTables} -> {"ok", "failed", "thrown"}]

\* The environments in which the selection that precedes buildPrompt
\* returned: the default load does not throw.
PromptEnvironments ==
  {env \in Environments :
     loadConfig(Store(Configuration, FALSE), env).thrown = ""}

\* No function call is under way.
NoCall == [fn |-> "none", pc |-> "idle"]

\* The store and the selector before any call.
StoreIdle ==
  /\ config_ = Configuration
  /\ config_loaded_ = FALSE
  /\ op = "none"
  /\ api_key = ""
  /\ provider_preference = ""
  /\ call_pc = "idle"
  /\ load_returned = FALSE
  /\ lazy_load = FALSE
  /\ loaded_since_reset = FALSE
  /\ selection = ProviderSelectionResult
  /\ ThreadsIdle

ParserInit ==
  /\ emitted \in Emissions
  /\ response_text = ResponseText(emitted)
  /\ allow_system_table_access \in BOOLEAN
  /\ parse_pc = "call"
  /\ j = JNull
  /\ thrown = ""
  /\ result = NoResult
  /\ StoreIdle
  /\ gen = GenIdle
  /\ fcall = NoCall

\* One call QueryParser::parseQueryResponse(response_text).  The function
\* has no parameter for system-table access, so the caller's wish is not
\* read.
ParseQueryResponse ==
  /\ parse_pc = "call"
  /\ \E out \in {parseQueryResponse(response_text)} :
       /\ j' = extractSQLFromResponse(response_text)
       /\ thrown' = out.thrown
       /\ result' = out.result
       /\ parse_pc' = IF out.thrown = "" THEN "returned" ELSE "thrown"
  /\ UNCHANGED <<emitted, response_text, allow_system_table_access>>
  /\ UNCHANGED <<store_vars, call_vars, thread_vars, gen_vars>>

ParserNext == ParseQueryResponse

ParserSpec == ParserInit /\ [][ParserNext]_vars

\* No response is being parsed.
ParserIdle ==
  /\ emitted = [form |-> "none"]
  /\ response_text = ""
  /\ allow_system_table_access = FALSE
  /\ parse_pc = "idle"
  /\ j = JNull
  /\ thrown = ""
  /\ result = NoResult

StoreInit == StoreIdle /\ ParserIdle /\ gen = GenIdle /\ fcall = NoCall

\* The outcome of a load: the store it leaves and what the caller sees.
\* The caller's last selection result goes out of scope.
Loaded(name, out) ==
  /\ config_' = out.store.config_
  /\ config_loaded_' = out.store.config_loaded_
  /\ op' = name
  /\ api_key' = ""
  /\ provider_preference' = ""
  /\ call_pc' = IF out.thrown = "" THEN "returned" ELSE "thrown"
  /\ load_returned' = (out.thrown = "" /\ out.ret)
  /\ lazy_load' = FALSE
  /\ loaded_since_reset' = (loaded_since_reset \/ load_returned')
  /\ selection' = ProviderSelectionResult

\* The default load that a read of a store not yet loaded runs in env
\* returned true.
LazyLoaded(env) ==
  /\ ~config_loaded_
  /\ Let(loadConfig(Store(config_, config_loaded_), env),
         LAMBDA load : load.thrown = "" /\ load.ret)

\* ConfigManager::loadConfig() in some environment.
LoadConfig ==
  /\ \E env \in Environments :
       Loaded("loadConfig", loadConfig(Store(config_, config_loaded_), env))
  /\ UNCHANGED <<parser_vars, thread_vars, gen_vars>>

\* ConfigManager::loadConfig(config_path) for some path.
LoadConfigPath ==
  /\ \E read \in ReadResults, environ \in EnvVars :
       Loaded("loadConfig_path",
              loadConfig_path(Store(config_, config_loaded_), read, environ))
  /\ UNCHANGED <<parser_vars, thread_vars, gen_vars>>

\* ConfigManager::reset()
Reset ==
  /\ config_' = reset.config_
  /\ config_loaded_' = reset.config_loaded_
  /\ op' = "reset"
  /\ api_key' = ""
  /\ provider_preference' = ""
  /\ call_pc' = "returned"
  /\ load_returned' = FALSE
  /\ lazy_load' = FALSE
  /\ loaded_since_reset' = FALSE
  /\ selection' = ProviderSelectionResult
  /\ UNCHANGED <<parser_vars, thread_vars, gen_vars>>

\* ProviderSelector::selectProvider(api_key, provider_preference), with
\* the lazy load it may trigger in the environment env.
SelectProvider ==
  /\ \E key \in {""} \cup {ApiKeys[k] : k \in 1..NumApiKeys},
        pref \in {Preferences[k] : k \in 1..NumPreferences},
        env \in Environments :
       \E out \in {selectProvider(Store(config_, config_loaded_),
                                   env, key, pref)} :
          /\ config_' = out.store.config_
          /\ config_loaded_' = out.store.config_loaded_
          /\ op' = "selectProvider"
          /\ api_key' = key
          /\ provider_preference' = pref
          /\ call_pc' = IF out.thrown = "" THEN "returned" ELSE "thrown"
          /\ load_returned' = FALSE
          /\ lazy_load' = ~config_loaded_
          /\ loaded_since_reset' = (loaded_since_reset \/ LazyLoaded(env))
          /\ selection' = out.result
  /\ UNCHANGED <<parser_vars, thread_vars, gen_vars>>

\* The outcome of a read of the store: the store it leaves; the value
\* returned refers to config_.
Got(name, env, out) ==
  /\ config_' = out.store.config_
  /\ config_loaded_' = out.store.config_loaded_
  /\ op' = name
  /\ api_key' = ""
  /\ provider_preference' = ""
  /\ call_pc' = IF out.thrown = "" THEN "returned" ELSE "thrown"
  /\ load_returned' = FALSE
  /\ lazy_load' = ~config_loaded_
  /\ loaded_since_reset' = (loaded_since_reset \/ LazyLoaded(env))
  /\ selection' = ProviderSelectionResult

\* ConfigManager::getConfig() in some environment.
GetConfig ==
  /\ \E env \in Environments :
       Got("getConfig", env, getConfig(Store(config_, config_loaded_), env))
  /\ UNCHANGED <<parser_vars, thread_vars, gen_vars>>

\* ConfigManager::getProviderConfig(provider) in some environment.
GetProviderConfig ==
  /\ \E env \in Environments, provider \in {OPENAI, ANTHROPIC, GEMINI} :
       Got("getProviderConfig", env,
           getProviderConfig(Store(config_, config_loaded_), env, provider))
  /\ UNCHANGED <<parser_vars, thread_vars, gen_vars>>

StoreNext ==
  \/ LoadConfig
  \/ LoadConfigPath
  \/ Reset
  \/ GetConfig
  \/ GetProviderConfig
  \/ SelectProvider

StoreSpec == StoreInit /\ [][StoreNext]_vars

(***************************************************************************)
(* The provider names: providerToString of a provider, stringToProvider of *)
(* that name, and stringToProvider of a given string.                      *)
(***************************************************************************)
NamesInit ==
  /\ StoreIdle
  /\ ParserIdle
  /\ gen = GenIdle
  /\ fcall \in [fn : {"providerNames"}, pc : {"call"},
                provider : Providers,
                provider_str : {ProviderNames[k] : k \in 1..NumProviderNames},
                name : {""}, back : {UNKNOWN}, parsed : {UNKNOWN}]

NamesUnchanged ==
  UNCHANGED <<parser_vars, store_vars, call_vars, thread_vars, gen>>

\* ConfigManager::providerToString(provider)
ProviderToString ==
  /\ fcall.fn = "providerNames"
  /\ fcall.pc = "call"
  /\ fcall' = [fcall EXCEPT !.pc = "named",
                            !.name = providerToString(fcall.provider)]
  /\ NamesUnchanged

\* ConfigManager::stringToProvider(providerToString(provider))
StringToProviderBack ==
  /\ fcall.fn = "providerNames"
  /\ fcall.pc = "named"
  /\ fcall' = [fcall EXCEPT !.pc = "round",
                            !.back = stringToProvider(fcall.name)]
  /\ NamesUnchanged

\* ConfigManager::stringToProvider(provider_str)
StringToProvider ==
  /\ fcall.fn = "providerNames"
  /\ fcall.pc = "round"
  /\ fcall' = [fcall EXCEPT !.pc = "returned",
                            !.parsed = stringToProvider(fcall.provider_str)]
  /\ NamesUnchanged

NamesNext == ProviderToString \/ StringToProviderBack \/ StringToProvider

NamesSpec == NamesInit /\ [][NamesNext]_vars

(***************************************************************************)
(* ResponseFormatter (src/src/core/query_parser.cpp, lines 219-324)        *)
(***************************************************************************)
\* The separator between the parts of a sequence of texts.
RECURSIVE JoinWith(_, _)
JoinWith(parts, sep) ==
  IF parts = <<>> THEN ""
  ELSE IF Len(parts) = 1 THEN parts[1]
  ELSE parts[1] \o sep \o JoinWith(Tail(parts), sep)

\* A character inside a string that basic_json::dump writes.
EscapeChar(c) ==
  IF c = "\"" THEN "\\\""
  ELSE IF c = "\\" THEN "\\\\"
  ELSE IF c = "\n" THEN "\\n"
  ELSE IF c = "\t" THEN "\\t"
  ELSE IF c = "\r" THEN "\\r"
  ELSE c

DumpString(s) ==
  "\"" \o Concat([i \in 1..Len(s) |-> EscapeChar(CharAt(s, i))]) \o "\""

\* An array of strings as dump(2) writes it one level inside an object.
DumpStrings(texts) ==
  IF texts = <<>> THEN "[]"
  ELSE "[\n"
         \o JoinWith([i \in 1..Len(texts) |-> "    " \o DumpString(texts[i])],
                     ",\n")
         \o "\n  ]"

\* response.dump(2) of an object given as its members, key and text of the
\* value, in the order of the keys.
DumpObject(members) ==
  IF members = <<>> THEN "{}"
  ELSE "{\n"
         \o JoinWith([i \in 1..Len(members) |->
                       "  " \o DumpString(members[i][1]) \o ": "
                         \o members[i][2]],
                     ",\n")
         \o "\n}"

\* The members createJSONResponse writes whatever the flags are.
JSONMembers_AllFields(query_result, config) ==
  << <<"explanation", DumpString(query_result.explanation)>>,
     <<"query", DumpString(query_result.generated_query)>>,
     <<"row_limit_applied",
       IF query_result.row_limit_applied THEN "true" ELSE "false">>,
     <<"success", IF query_result.success THEN "true" ELSE "false">>,
     <<"suggested_visualization",
       DumpString(query_result.suggested_visualization)>>,
     <<"warnings", DumpStrings(query_result.warnings)>> >>

\* Lines 241-263: the members of the response; nlohmann::json keeps the
\* keys of an object in alphabetical order.
JSONMembers(query_result, config) ==
  (IF config.show_explanation /\ query_result.explanation # ""
     THEN << <<"explanation", DumpString(query_result.explanation)>> >> ELSE <<>>)
  \o << <<"query", DumpString(query_result.generated_query)>> >>
  \o (IF query_result.row_limit_applied
        THEN << <<"row_limit_applied", "true">> >> ELSE <<>>)
  \o << <<"success", IF query_result.success THEN "true" ELSE "false">> >>
  \o (IF config.show_suggested_visualization
           /\ query_result.suggested_visualization # ""
        THEN << <<"suggested_visualization",
                  DumpString(query_result.suggested_visualization)>> >>
        ELSE <<>>)
  \o (IF config.show_warnings /\ query_result.warnings # <<>>
        THEN << <<"warnings", DumpStrings(query_result.warnings)>> >> ELSE <<>>)

\* ResponseFormatter::createJSONResponse
createJSONResponse(query_result, config) ==
  DumpObject(JSONMembers(query_result, config))

\* operator<< of a small size_t
NatText(n) ==
  IF n < 10 THEN CharAt(Digits, n + 1)
  ELSE CharAt(Digits, (n \div 10) + 1) \o CharAt(Digits, (n % 10) + 1)

\* The warnings block that always writes the numbered list.
formatWarnings_AlwaysList(warnings) ==
  "-- Warnings:"
    \o Concat([i \in 1..Len(warnings) |->
                 "\n--   " \o NatText(i) \o ". " \o warnings[i]])

\* ResponseFormatter::formatWarnings
formatWarnings(warnings) ==
  IF Len(warnings) = 1 THEN "-- Warning: " \o warnings[1]
  ELSE "-- Warnings:"
         \o Concat([i \in 1..Len(warnings) |->
                      "\n--   " \o NatText(i) \o ". " \o warnings[i]])

\* ResponseFormatter::formatVisualization
formatVisualization(visualization) ==
  "-- Suggested Visualization:\n-- " \o visualization

RowLimitNote ==
  "\n\n-- Note: Row limit was automatically applied to this query for safety"

\* ResponseFormatter::createPlainTextResponse
createPlainTextResponse(query_result, config) ==
  query_result.generated_query
    \o (IF config.show_explanation /\ query_result.explanation # ""
          THEN "\n\n-- Explanation:\n-- " \o query_result.explanation ELSE "")
    \o (IF config.show_warnings /\ query_result.warnings # <<>>
          THEN "\n\n" \o formatWarnings(query_result.warnings) ELSE "")
    \o (IF config.show_suggested_visualization
             /\ query_result.suggested_visualization # ""
          THEN "\n\n" \o formatVisualization(query_result.suggested_visualization)
          ELSE "")
    \o (IF query_result.row_limit_applied THEN RowLimitNote ELSE "")

\* ResponseFormatter::formatResponse
formatResponse(query_result, config) ==
  IF config.use_formatted_response
    THEN createJSONResponse(query_result, config)
    ELSE createPlainTextResponse(query_result, config)

FormatInit ==
  /\ StoreIdle
  /\ ParserIdle
  /\ gen = GenIdle
  /\ fcall \in [fn : {"formatResponse"}, pc : {"call"},
                result : FormatResults, config : FormatConfigs, out : {""}]

\* One call of ResponseFormatter::formatResponse(result, config).
FormatResponse ==
  /\ fcall.fn = "formatResponse"
  /\ fcall.pc = "call"
  /\ fcall' = [fcall EXCEPT
                 !.pc = "returned",
                 !.out = formatResponse(fcall.result, fcall.config)]
  /\ UNCHANGED <<parser_vars, store_vars, call_vars, thread_vars, gen>>

FormatNext == FormatResponse

FormatSpec == FormatInit /\ [][FormatNext]_vars

(***************************************************************************)
(* QueryGenerator::buildPrompt.  The catalog is outside the sources:       *)
(* listing is what getDatabaseTables answers ("ok" with the tables in      *)
(* catalog order, "failed" for success = false, "thrown" for an exception  *)
(* raised inside the try block), details what getTableDetails answers for  *)
(* each table name.                                                        *)
(***************************************************************************)
\* QueryGenerator::formatSchemaForAI for tables of the schema public.
formatSchemaForAI(tables) ==
  "=== DATABASE SCHEMA ===\n"
    \o "IMPORTANT: These are the ONLY tables available in this database:\n\n"
    \o Concat([k \in 1..Len(tables) |->
                 "- public." \o tables[k] \o " (BASE TABLE, ~0 rows)\n"])
    \o (IF tables = <<>> THEN "- No user tables found in database\n" ELSE "")
    \o "\nCRITICAL: If user asks for tables not listed above, return an "
    \o "error with available table names.\n"
    \o "Do NOT query information_schema or pg_catalog tables.\n"

\* QueryGenerator::formatTableDetailsForAI for a table without indexes.
formatTableDetailsForAI(table_name) ==
  "=== TABLE: public." \o table_name \o " ===\n\nCOLUMNS:\n"

\* Lines 138-144: the listed names that occur in the request text.
MentionedTables(natural_language, tables) ==
  SelectSeq(tables, LAMBDA name : Find(natural_language, name))

RECURSIVE FetchDetails_All(_, _, _, _)
\* The loop over the mentioned tables without the limit of three.
FetchDetails_All(acc, mentioned_tables, i, details) ==
  IF i > Len(mentioned_tables) THEN acc
  ELSE Let(mentioned_tables[i], LAMBDA name :
    IF details[name] = "thrown"
      THEN [acc EXCEPT !.fetched = Append(acc.fetched, name)]
    ELSE FetchDetails_All(
           [acc EXCEPT
              !.fetched = Append(acc.fetched, name),
              !.appended = IF details[name] = "ok"
                             THEN Append(acc.appended, name)
                             ELSE acc.appended,
              !.schema_context =
                 IF details[name] = "ok"
                   THEN acc.schema_context \o "\n"
                          \o formatTableDetailsForAI(name)
                   ELSE acc.schema_context],
           mentioned_tables, i + 1, details))

RECURSIVE FetchDetails(_, _, _, _)
\* Lines 146-151: getTableDetails for the first three mentioned tables; an
\* exception ends the try block with what was appended so far.
FetchDetails(acc, mentioned_tables, i, details) ==
  IF i > Len(mentioned_tables) \/ i > 3 THEN acc
  ELSE Let(mentioned_tables[i], LAMBDA name :
    IF details[name] = "thrown"
      THEN [acc EXCEPT !.fetched = Append(acc.fetched, name)]
    ELSE FetchDetails(
           [acc EXCEPT
              !.fetched = Append(acc.fetched, name),
              !.appended = IF details[name] = "ok"
                             THEN Append(acc.appended, name)
                             ELSE acc.appended,
              !.schema_context =
                 IF details[name] = "ok"
                   THEN acc.schema_context \o "\n"
                          \o formatTableDetailsForAI(name)
                   ELSE acc.schema_context],
           mentioned_tables, i + 1, details))

\* Lines 132-153: the schema context, the names getTableDetails was called
\* for and the names whose details were appended.
SchemaContext(natural_language, listing, details) ==
  IF listing.outcome # "ok"
    THEN [schema_context |-> "", fetched |-> <<>>, appended |-> <<>>]
  ELSE FetchDetails([schema_context |-> formatSchemaForAI(listing.tables),
                     fetched |-> <<>>, appended |-> <<>>],
                    MentionedTables(natural_language, listing.tables),
                    1, details)

\* The prompt that loses the request text when there is no schema context.
PromptText_NeedsContext(natural_language, schema_context) ==
  "Generate a PostgreSQL query for this request:\n\n"
    \o (IF schema_context = "" THEN ""
        ELSE "Request: " \o natural_language \o "\n"
               \o "Schema info:\n" \o schema_context \o "\n")

\* Lines 129-130 and 156-160: the text of the prompt.
PromptText(natural_language, schema_context) ==
  "Generate a PostgreSQL query for this request:\n\n"
    \o "Request: " \o natural_language \o "\n"
    \o (IF schema_context = "" THEN ""
        ELSE "Schema info:\n" \o schema_context \o "\n")

\* QueryGenerator::buildPrompt(request) after its call of getConfig.
buildPrompt(natural_language, listing, details) ==
  Let(SchemaContext(natural_language, listing, details), LAMBDA context :
    [prompt |-> PromptText(natural_language, context.schema_context),
     fetched |-> context.fetched,
     appended |-> context.appended])

PromptInit ==
  /\ StoreIdle
  /\ ParserIdle
  /\ gen = GenIdle
  /\ fcall \in [fn : {"buildPrompt"}, pc : {"call"},
                natural_language : {PromptTexts[k] : k \in 1..NumPromptTexts},
                env : PromptEnvironments,
                listing : Listings, details : DetailAnswers,
                out : {[prompt |-> "", fetched |-> <<>>, appended |-> <<>>]}]

\* One call of buildPrompt: getConfig (line 127), then the prompt.
BuildPromptCall ==
  /\ fcall.fn = "buildPrompt"
  /\ fcall.pc = "call"
  /\ \E got \in {getConfig(Store(config_, config_loaded_), fcall.env)} :
       /\ config_' = got.store.config_
       /\ config_loaded_' = got.store.config_loaded_
       /\ fcall' = [fcall EXCEPT
                      !.pc = IF got.thrown = "" THEN "returned" ELSE "thrown",
                      !.out = IF got.thrown # "" THEN fcall.out
                              ELSE buildPrompt(fcall.natural_language,
                                               fcall.listing, fcall.details)]
  /\ UNCHANGED <<parser_vars, call_vars, thread_vars, gen>>

PromptNext == BuildPromptCall

PromptSpec == PromptInit /\ [][PromptNext]_vars

(***************************************************************************)
(* QueryGenerator::generateQuery (src/src/core/query_generator.cpp), one   *)
(* action per stage.  gen.steps lists the stages entered, gen.escaped the  *)
(* exception that left the function.  AIClientFactory, the provider client *)
(* and the catalog are outside the sources: each answers with one of its   *)
(* possible outcomes.                                                      *)
(***************************************************************************)
GenInit ==
  /\ StoreIdle
  /\ ParserIdle
  /\ fcall = NoCall
  /\ \E request \in Requests, env \in Environments :
       gen = [GenIdle EXCEPT !.pc = "validate", !.request = request,
                             !.env = env]

\* The QueryResult of every error path of generateQuery.
Failure(message) == QueryResult("", "", <<>>, FALSE, "", FALSE, message)

\* generateQuery returns r.
GenReturn(stage, r) ==
  gen' = [gen EXCEPT !.pc = "done", !.result = r,
                     !.steps = Append(gen.steps, stage)]

\* The exception leaves generateQuery.
GenCatch_Escapes(stage, what) ==
  gen' = [gen EXCEPT !.pc = "done", !.escaped = what,
                     !.steps = Append(gen.steps, stage)]

\* catch (const std::exception& e)
GenCatch(stage, what) == GenReturn(stage, Failure("Exception: " \o what))

GenUnchanged == UNCHANGED <<parser_vars, call_vars, thread_vars, fcall>>

\* Lines 37-46: the test of the request text.
Validate ==
  /\ gen.pc = "validate"
  /\ IF gen.request.natural_language = ""
       THEN GenReturn("validate",
                      Failure("Natural language query cannot be empty"))
       ELSE gen' = [gen EXCEPT !.pc = "select",
                               !.steps = Append(gen.steps, "validate")]
  /\ UNCHANGED store_vars
  /\ GenUnchanged

\* Lines 48-59: ProviderSelector::selectProvider; it may load the store.
Select ==
  /\ gen.pc = "select"
  /\ \E out \in {selectProvider(Store(config_, config_loaded_), gen.env,
                                 gen.request.api_key, gen.request.provider)} :
       /\ config_' = out.store.config_
       /\ config_loaded_' = out.store.config_loaded_
       /\ IF out.thrown # "" THEN GenCatch("select", out.thrown)
          ELSE IF ~out.result.success
            THEN GenReturn("select", Failure(out.result.error_message))
          ELSE gen' = [gen EXCEPT !.pc = "create_client",
                                  !.selection = out.result,
                                  !.steps = Append(gen.steps, "select")]
  /\ GenUnchanged

\* Lines 61-72: AIClientFactory::createClient succeeds or reports an error.
CreateClient ==
  /\ gen.pc = "create_client"
  /\ \/ GenReturn("create_client", Failure("Failed to create client"))
     \/ gen' = [gen EXCEPT !.pc = "build_prompt",
                           !.steps = Append(gen.steps, "create_client")]
  /\ UNCHANGED store_vars
  /\ GenUnchanged

\* Lines 74-76 and buildPrompt (lines 125-160): getConfig, then the request
\* text and whatever schema text the catalog gives.
BuildPrompt ==
  /\ gen.pc = "build_prompt"
  /\ \E out \in {getConfig(Store(config_, config_loaded_), gen.env)},
        listing \in {[outcome |-> "failed", tables |-> <<>>],
                     [outcome |-> "ok", tables |-> <<TableNames[2]>>]} :
       /\ config_' = out.store.config_
       /\ config_loaded_' = out.store.config_loaded_
       /\ IF out.thrown # "" THEN GenCatch("build_prompt", out.thrown)
          ELSE gen' = [gen EXCEPT
                 !.pc = "generate",
                 !.prompt =
                    buildPrompt(gen.request.natural_language, listing,
                                [name \in {TableNames[2]} |-> "ok"]).prompt,
                 !.steps = Append(gen.steps, "build_prompt")]
  /\ GenUnchanged

\* A generate_text that is called again after a transport failure.
Generate_Retries ==
  /\ gen.pc = "generate"
  /\ \/ /\ gen.generate_calls < 2
        /\ gen' = [gen EXCEPT
                     !.generate_calls = gen.generate_calls + 1,
                     !.steps = Append(gen.steps, "generate")]
     \/ \E k \in 1..NumReplies :
          gen' = [gen EXCEPT
                    !.pc = "parse",
                    !.generate_calls = gen.generate_calls + 1,
                    !.steps = Append(gen.steps, "generate"),
                    !.response = Replies[k]]
  /\ UNCHANGED store_vars
  /\ GenUnchanged

\* Lines 88-110: client.generate_text(options) answers with an error, with
\* an empty text or with a text.
Generate ==
  /\ gen.pc = "generate"
  /\ \/ \E k \in 1..NumApiErrors :
          \E out \in {formatAPIError(ApiErrors[k])} :
            gen' = [gen EXCEPT
                      !.pc = "done",
                      !.generate_calls = gen.generate_calls + 1,
                      !.steps = Append(gen.steps, "generate"),
                      !.result =
                         IF out.thrown # ""
                           THEN Failure("Exception: " \o out.thrown)
                           ELSE Failure("AI API error: " \o out.v)]
     \/ gen' = [gen EXCEPT
                  !.pc = "done",
                  !.generate_calls = gen.generate_calls + 1,
                  !.steps = Append(gen.steps, "generate"),
                  !.result = Failure("Empty response from AI service")]
     \/ \E k \in 1..NumReplies :
          gen' = [gen EXCEPT
                    !.pc = "parse",
                    !.generate_calls = gen.generate_calls + 1,
                    !.steps = Append(gen.steps, "generate"),
                    !.response = Replies[k]]
  /\ UNCHANGED store_vars
  /\ GenUnchanged

\* Line 112: QueryParser::parseQueryResponse(result.text)
ParseResponse ==
  /\ gen.pc = "parse"
  /\ \E out \in {parseQueryResponse(gen.response)} :
       IF out.thrown # "" THEN GenCatch("parse", out.thrown)
       ELSE GenReturn("parse", out.result)
  /\ UNCHANGED store_vars
  /\ GenUnchanged

GenNext ==
  \/ Validate
  \/ Select
  \/ CreateClient
  \/ BuildPrompt
  \/ Generate
  \/ ParseResponse

GenSpec == GenInit /\ [][GenNext]_vars

(***************************************************************************)
(* ConfigManager called from several threads.  config_ and config_loaded_  *)
(* are plain statics and no function of config.cpp takes a lock, so the    *)
(* threads interleave at each read and write of the two.                   *)
(***************************************************************************)
ThreadInit == StoreIdle /\ ParserIdle /\ gen = GenIdle /\ fcall = NoCall

At(t, pc) == threads[t].pc = pc

Goto(t, pc) == threads' = [threads EXCEPT ![t].pc = pc]

\* Where a thread goes when loadConfig returns: back into the get that
\* called it, or out of the call.
AfterLoad(t) ==
  IF threads[t].call \in {"getConfig", "getProviderConfig"}
    THEN "return" ELSE "idle"

\* A thread enters getConfig, getProviderConfig, loadConfig or reset.
ThreadCall ==
  \E t \in 1..NumThreads :
    /\ At(t, "idle")
    /\ \E call \in {"getConfig", "getProviderConfig", "loadConfig", "reset"} :
         threads' = [threads EXCEPT
                       ![t].call = call,
                       ![t].pc = IF call = "reset" THEN "reset_config"
                                 ELSE IF call = "loadConfig" THEN "read_file"
                                 ELSE "check_loaded"]
    /\ UNCHANGED <<store_vars, observed, parser_vars, call_vars, gen_vars>>

\* if (!config_loaded_) loadConfig();
CheckLoaded ==
  \E t \in 1..NumThreads :
    /\ At(t, "check_loaded")
    /\ Goto(t, IF config_loaded_ THEN "return" ELSE "read_file")
    /\ UNCHANGED <<store_vars, observed, parser_vars, call_vars, gen_vars>>

\* loadConfig up to the call of parseConfig: the file cannot be read and the
\* store is marked loaded, or its content goes to parseConfig.
ReadFile ==
  \E t \in 1..NumThreads :
    /\ At(t, "read_file")
    /\ \/ /\ config_loaded_' = TRUE
          /\ Goto(t, AfterLoad(t))
          /\ UNCHANGED config_
       \/ /\ \E i \in 1..NumThreadFiles :
               threads' = [threads EXCEPT ![t].pc = "parse_reset",
                                          ![t].lines = Lines(ConfigFiles[i]),
                                          ![t].section = ""]
          /\ UNCHANGED store_vars
    /\ UNCHANGED <<observed, parser_vars, call_vars, gen_vars>>

\* config_ = Configuration(); at the start of parseConfig
ParseReset ==
  \E t \in 1..NumThreads :
    /\ At(t, "parse_reset")
    /\ config_' = Configuration
    /\ Goto(t, "parse_line")
    /\ UNCHANGED <<config_loaded_, observed, parser_vars, call_vars, gen_vars>>

\* One turn of the loop of parseConfig: the next line is applied to config_,
\* or its conversion throws and the exception leaves the call.
ParseNextLine ==
  \E t \in 1..NumThreads :
    /\ At(t, "parse_line")
    /\ threads[t].lines # <<>>
    /\ \E acc \in {ParseLine([config |-> config_,
                               section |-> threads[t].section, thrown |-> ""],
                              Head(threads[t].lines))} :
         /\ config_' = acc.config
         /\ threads' = [threads EXCEPT
                          ![t].lines = Tail(threads[t].lines),
                          ![t].section = acc.section,
                          ![t].pc = IF acc.thrown = "" THEN "parse_line"
                                    ELSE "idle"]
    /\ UNCHANGED <<config_loaded_, observed, parser_vars, call_vars, gen_vars>>

\* The end of parseConfig: default_provider becomes the first entry.
ParseDefault ==
  \E t \in 1..NumThreads :
    /\ At(t, "parse_line")
    /\ threads[t].lines = <<>>
    /\ config_' = IF config_.providers # <<>>
                    THEN [config_ EXCEPT
                            !.default_provider = config_.providers[1]]
                    ELSE config_
    /\ Goto(t, "set_loaded")
    /\ UNCHANGED <<config_loaded_, observed, parser_vars, call_vars, gen_vars>>

\* config_loaded_ = true; after parseConfig returned true
SetLoaded ==
  \E t \in 1..NumThreads :
    /\ At(t, "set_loaded")
    /\ config_loaded_' = TRUE
    /\ Goto(t, AfterLoad(t))
    /\ UNCHANGED <<config_, observed, parser_vars, call_vars, gen_vars>>

\* getConfig returns config_, getProviderConfig an entry of
\* config_.providers: the caller sees the configuration as it is now.
Return ==
  \E t \in 1..NumThreads :
    /\ At(t, "return")
    /\ observed' = config_
    /\ Goto(t, "idle")
    /\ UNCHANGED <<store_vars, parser_vars, call_vars, gen_vars>>

\* config_ = Configuration(); in reset
ResetConfig ==
  \E t \in 1..NumThreads :
    /\ At(t, "reset_config")
    /\ config_' = Configuration
    /\ Goto(t, "reset_loaded")
    /\ UNCHANGED <<config_loaded_, observed, parser_vars, call_vars, gen_vars>>

\* config_loaded_ = false; in reset
ResetLoaded ==
  \E t \in 1..NumThreads :
    /\ At(t, "reset_loaded")
    /\ config_loaded_' = FALSE
    /\ Goto(t, "idle")
    /\ UNCHANGED <<config_, observed, parser_vars, call_vars, gen_vars>>

ThreadNext ==
  \/ ThreadCall
  \/ CheckLoaded
  \/ ReadFile
  \/ ParseReset
  \/ ParseNextLine
  \/ ParseDefault
  \/ SetLoaded
  \/ Return
  \/ ResetConfig
  \/ ResetLoaded

ThreadSpec == ThreadInit /\ [][ThreadNext]_vars

(***************************************************************************)
(* Properties of parseQueryResponse, checked under ParserSpec              *)
(***************************************************************************)
Called == parse_pc # "call"

HasMember(key) == j.t = "object" /\ key \in DOMAIN j.v

MemberIs(key, ty) == HasMember(key) /\ j.v[key].t = ty

\* The text of a string member of the payload, "" when it has none.
TextOf(key) == IF MemberIs(key, "string") THEN j.v[key].v ELSE ""

\* Lines 144-145 ran to the end: the payload is an object whose sql and
\* explanation are strings or absent.
Pulled ==
  /\ Called
  /\ j.t = "object"
  /\ HasMember("sql") => MemberIs("sql", "string")
  /\ HasMember("explanation") => MemberIs("explanation", "string")

\* The warnings of the payload as the spec normalises them.
WarningsOf ==
  IF MemberIs("warnings", "string") THEN <<j.v["warnings"].v>>
  ELSE IF MemberIs("warnings", "array")
          /\ \A i \in 1..Len(j.v["warnings"].v) :
               j.v["warnings"].v[i].t = "string"
    THEN [i \in 1..Len(j.v["warnings"].v) |-> j.v["warnings"].v[i].v]
  ELSE <<>>

\* word (in lower case) occurs in s in some letter case.
ContainsAnyCase(s, word) ==
  \E i \in 1..(Len(s) - Len(word) + 1) :
    ToLower(SubSeq(s, i, i + Len(word) - 1)) = word

NamesCatalog(s) ==
  ContainsAnyCase(s, "information_schema") \/ ContainsAnyCase(s, "pg_catalog")

\* C1: when system-table access is not allowed, a result returned with
\* success = true never has a generated_query that contains
\* information_schema or pg_catalog in any letter case.
C1_SuccessNamesNoCatalog ==
  (parse_pc = "returned" /\ ~allow_system_table_access /\ result.success)
    => ~NamesCatalog(result.generated_query)

\* C1 witness: a successful result with a query, where access is not allowed.
C1_Witness ==
  /\ parse_pc = "returned" /\ ~allow_system_table_access
  /\ result.success /\ result.generated_query # ""

C3_CatalogFailureIsFixed ==
  (/\ Pulled /\ ~allow_system_table_access
   /\ ~hasErrorIndicators(TextOf("explanation"), WarningsOf)
   /\ TextOf("sql") # "" /\ accessesSystemTables(TextOf("sql")))
    => /\ parse_pc = "returned"
       /\ result = QueryResult("", "", <<>>, FALSE, "", FALSE,
                               SystemTablesMessage)

\* C3 witness: such a payload with an explanation and warnings to discard.
C3_Witness ==
  /\ Pulled /\ ~allow_system_table_access
  /\ ~hasErrorIndicators(TextOf("explanation"), WarningsOf)
  /\ accessesSystemTables(TextOf("sql"))
  /\ TextOf("explanation") # "" /\ WarningsOf # <<>>
  /\ parse_pc = "returned" /\ result.error_message = SystemTablesMessage

\* C4: with system-table access allowed, a payload without error
\* indicators whose sql names a system table gives success, with
\* generated_query equal to the sql and the explanation passed through.
C4_CatalogAllowedWhenFlagTrue ==
  (/\ Pulled /\ allow_system_table_access
   /\ ~hasErrorIndicators(TextOf("explanation"), WarningsOf)
   /\ TextOf("sql") # "" /\ accessesSystemTables(TextOf("sql")))
    => /\ parse_pc = "returned"
       /\ result.success
       /\ result.generated_query = TextOf("sql")
       /\ result.explanation = TextOf("explanation")

\* C5: parseQueryResponse returns a QueryResult for every text and never
\* throws; a warnings member that is neither an array of strings nor a
\* string gives an empty warnings list.
C5_NeverThrows ==
  Called =>
    /\ parse_pc = "returned"
    /\ (/\ HasMember("warnings")
        /\ ~MemberIs("warnings", "string")
        /\ WarningsOf = <<>>) => result.warnings = <<>>

\* C6: extractSQLFromResponse returns the object of a fenced block when
\* that object parses, whatever surrounds it; otherwise the parsed whole
\* text when it parses; otherwise the payload made of the whole text and
\* the raw-output notice.
C6_StagesInOrder ==
  Called =>
    LET block == IF emitted.form \in {"fenced", "fenced_untagged"}
                   THEN JsonParse(ObjectText(emitted)) ELSE ParseFail
        whole == JsonParse(response_text)
    IN IF block.ok THEN j = block.val
       ELSE IF whole.ok THEN j = whole.val
       ELSE j = JObject([sql |-> JString(response_text),
                         explanation |-> JString(RawOutputNotice)])

\* C7: without error indicators, an empty or absent sql gives success with
\* an empty generated_query and an empty error_message.
C7_EmptySqlIsSuccess ==
  (/\ Pulled
   /\ ~hasErrorIndicators(TextOf("explanation"), WarningsOf)
   /\ TextOf("sql") = "")
    => /\ parse_pc = "returned"
       /\ result.success
       /\ result.generated_query = ""
       /\ result.error_message = ""

\* C7 witness: a payload with an explanation and no sql member, returned
\* as a success.
C7_Witness ==
  /\ Pulled /\ ~HasMember("sql") /\ TextOf("explanation") # ""
  /\ ~hasErrorIndicators(TextOf("explanation"), WarningsOf)
  /\ parse_pc = "returned" /\ result.success

\* C8: without error indicators, a non-empty sql that passes the
\* system-table gate gives success with generated_query equal to the sql,
\* explanation and warnings passed through, row_limit_applied from the
\* payload (default false) and suggested_visualization from the payload
\* (default "table").
C8_SuccessPassesThrough ==
  (/\ Pulled
   /\ ~hasErrorIndicators(TextOf("explanation"), WarningsOf)
   /\ TextOf("sql") # "" /\ ~accessesSystemTables(TextOf("sql")))
    => /\ parse_pc = "returned"
       /\ result.success
       /\ result.generated_query = TextOf("sql")
       /\ result.explanation = TextOf("explanation")
       /\ result.warnings = WarningsOf
       /\ result.row_limit_applied =
            (MemberIs("row_limit_applied", "boolean")
               /\ j.v["row_limit_applied"].v = "true")
       /\ result.suggested_visualization =
            (IF HasMember("suggested_visualization")
               THEN TextOf("suggested_visualization") ELSE "table")

(***************************************************************************)
(* Provider selection                                                      *)
(***************************************************************************)
KnownNames == {"openai", "anthropic", "gemini"}

\* selectProvider returned for a preference that is none of the known
\* lowercase names.
AutoReturned ==
  /\ op = "selectProvider"
  /\ call_pc = "returned"
  /\ provider_preference \notin KnownNames

\* The API key the configuration holds for the provider, "" when it has no
\* entry.
Configured(provider) ==
  IF \E i \in 1..Len(config_.providers) :
       config_.providers[i].provider = provider
    THEN config_.providers[
           CHOOSE i \in 1..Len(config_.providers) :
             /\ config_.providers[i].provider = provider
             /\ \A m \in 1..(i - 1) : config_.providers[m].provider # provider
         ].api_key
    ELSE ""

ScanOrder == <<OPENAI, ANTHROPIC, GEMINI>>

ConfigTag == [p \in {OPENAI, ANTHROPIC, GEMINI} |->
                IF p = OPENAI THEN "openai_config"
                ELSE IF p = ANTHROPIC THEN "anthropic_config"
                ELSE "gemini_config"]

C10_AutoSelectUsesParameter ==
  (AutoReturned /\ api_key # "") =>
    /\ selection.success
    /\ selection.provider = OPENAI
    /\ selection.api_key = api_key
    /\ selection.api_key_source = "parameter"
    /\ selection.error_message = ""

\* An unrecognized preference with an inline key, while the configuration
\* holds a key for Anthropic only.
C10_Witness ==
  /\ AutoReturned
  /\ api_key # ""
  /\ provider_preference = "mistral"
  /\ Configured(OPENAI) = ""
  /\ Configured(ANTHROPIC) # ""
  /\ selection.success
  /\ selection.provider = OPENAI
  /\ selection.api_key_source = "parameter"

\* selectProvider returned for one of the known lowercase names.
ExplicitReturned ==
  /\ op = "selectProvider"
  /\ call_pc = "returned"
  /\ provider_preference \in KnownNames

\* The provider a known name stands for.
NamedProvider ==
  [n \in KnownNames |->
     IF n = "openai" THEN OPENAI
     ELSE IF n = "anthropic" THEN ANTHROPIC
     ELSE GEMINI]

\* C11: a selectProvider call with the preference "openai", "anthropic" or
\* "gemini" that returns has chosen that provider; its API key is the one
\* passed when that is not empty (source "parameter"), otherwise the key
\* the configuration holds for that provider when it is not empty (source
\* "<provider>_config"), and otherwise empty: the key of another provider
\* is never used.
C11_ExplicitResolvesCredential ==
  ExplicitReturned =>
    LET p == NamedProvider[provider_preference] IN
    /\ selection.provider = p
    /\ IF api_key # ""
         THEN /\ selection.success
              /\ selection.api_key = api_key
              /\ selection.api_key_source = "parameter"
       ELSE IF Configured(p) # ""
         THEN /\ selection.success
              /\ selection.api_key = Configured(p)
              /\ selection.api_key_source = ConfigTag[p]
       ELSE selection.api_key = ""

\* Anthropic was asked for without a key while the configuration holds
\* keys for OpenAI and Anthropic: the Anthropic key was taken.
C11_Witness ==
  /\ ExplicitReturned
  /\ provider_preference = "anthropic"
  /\ api_key = ""
  /\ Configured(OPENAI) # ""
  /\ Configured(ANTHROPIC) # ""
  /\ selection.api_key = Configured(ANTHROPIC)
  /\ selection.api_key_source = "anthropic_config"

\* C12: a selectProvider call with one of the three known names, no API key
\* passed and no key configured for that provider reports failure with an
\* error message that contains the requested name and tells the caller to
\* pass the key as parameter or to configure it.
C12_ExplicitFailureNamesProvider ==
  (/\ ExplicitReturned
   /\ api_key = ""
   /\ Configured(NamedProvider[provider_preference]) = "")
    => /\ ~selection.success
       /\ Find(selection.error_message, provider_preference)
       /\ Find(selection.error_message, "as parameter")
       /\ Find(selection.error_message, "configure it")

\* The configuration without entry i of its providers.
WithoutEntry(config, i) ==
  [config EXCEPT !.providers =
     SubSeq(@, 1, i - 1) \o SubSeq(@, i + 1, Len(@))]

\* What selection is about: everything in the result but the pointer.
Outcome(sel) ==
  [provider |-> sel.provider, api_key |-> sel.api_key,
   api_key_source |-> sel.api_key_source, success |-> sel.success,
   error_message |-> sel.error_message]

\* The result of the last selectProvider call, had the loaded
\* configuration been config.
SelectionIn(config) ==
  selectProvider(Store(config, TRUE),
                 [home_dir |-> "", read |-> [first |-> FALSE, second |-> ""]],
                 api_key, provider_preference).result

\* C13: an entry with an empty API key counts as no entry.  Whenever
\* selectProvider has returned, the same call on the configuration without
\* any one of its entries that have an empty key gives the same provider,
\* API key, source, success flag and error message.
C13_EmptyKeyIsNotConfigured ==
  (op = "selectProvider" /\ call_pc = "returned") =>
    \A i \in 1..Len(config_.providers) :
      config_.providers[i].api_key = "" =>
        Outcome(SelectionIn(WithoutEntry(config_, i))) = Outcome(selection)

\* Anthropic was asked for without a key while the configuration holds an
\* Anthropic entry that has no key: the call failed as it does without the
\* entry.
C13_Witness ==
  /\ op = "selectProvider" /\ call_pc = "returned"
  /\ provider_preference = "anthropic" /\ api_key = ""
  /\ FindProvider(config_, ANTHROPIC) # 0
  /\ Configured(ANTHROPIC) = ""
  /\ ~selection.success
  /\ FindProvider(WithoutEntry(config_, FindProvider(config_, ANTHROPIC)),
                  ANTHROPIC) = 0

(***************************************************************************)
(* Loading                                                                 *)
(***************************************************************************)
LoadOps == {"loadConfig", "loadConfig_path"}

\* C14: after a load that met a malformed numeric literal, the
\* configuration getConfig returns next (without loading anything itself)
\* is the built-in defaults: it holds no key parsed earlier in the same
\* file and no value of an earlier load.
C14_FailedLoadLeavesDefaults ==
  [][(/\ op \in LoadOps /\ call_pc = "thrown"
      /\ op' = "getConfig" /\ call_pc' = "returned" /\ ~lazy_load')
       => config_' = Configuration]_vars

\* A call of loadConfig(config_path) on a path that read_file cannot read.
LoadUnreadable ==
  Loaded("loadConfig_path",
         loadConfig_path(Store(config_, config_loaded_),
                         [first |-> FALSE, second |-> ""], NoEnvVars))

\* C15: whatever was loaded before, loadConfig on a path that cannot be
\* read returns true and leaves the built-in defaults in the store.
C15_UnreadableLoadGivesDefaults ==
  [][LoadUnreadable => (load_returned' /\ config_' = Configuration)]_vars

GetOps == {"getConfig", "getProviderConfig"}

\* C16: a call of getConfig or getProviderConfig runs the default load
\* exactly when no load has returned true since the start or the last
\* reset; after such a load the call neither loads nor changes the
\* configuration; reset puts the defaults back, and a get right after it
\* runs the load again.
C16_LazyLoadOnlyUntilLoaded ==
  [][/\ op' \in GetOps =>
          /\ lazy_load' <=> ~loaded_since_reset
          /\ loaded_since_reset => config_' = config_
     /\ op' = "reset" => config_' = Configuration
     /\ (op = "reset" /\ op' \in GetOps) => lazy_load']_vars

\* A get that returned a loaded, non-default configuration without loading.
C16_Witness ==
  /\ op \in GetOps /\ call_pc = "returned"
  /\ loaded_since_reset /\ ~lazy_load
  /\ config_ # Configuration

(***************************************************************************)
(* Properties of ConfigManager under threads, checked under ThreadSpec     *)
(***************************************************************************)
\* Thread t is inside the load its get started.
LazyLoading(t) ==
  /\ threads[t].call \in GetOps
  /\ threads[t].pc \in {"read_file", "parse_reset", "parse_line", "set_loaded"}

\* The configurations a finished load or reset leaves.
Settled ==
  {Configuration}
    \cup {parseConfig(ConfigFiles[i]).config : i \in 1..NumThreadFiles}

\* C17: with several threads calling getConfig, getProviderConfig,
\* loadConfig and reset, at most one thread runs the lazy load, and every
\* configuration a get returns is the defaults or a completely parsed file.
C17_ThreadSafe ==
  /\ Cardinality({t \in 1..NumThreads : LazyLoading(t)}) <= 1
  /\ observed \in Settled

\* A call of loadConfig(config_path) on a path that holds GeminiOnlyFile.
LoadGeminiOnly ==
  Loaded("loadConfig_path",
         loadConfig_path(Store(config_, config_loaded_),
                         [first |-> TRUE, second |-> GeminiOnlyFile],
                         NoEnvVars))

\* C18: after a load of a file whose only credential is api_key under
\* [gemini], getProviderConfig(GEMINI) returns an entry that holds that
\* key, and a selection with no key and no preference selects Gemini.
C18_GeminiSectionConfigures ==
  [][LoadGeminiOnly =>
       /\ Let(FindProvider(config_', GEMINI), LAMBDA ptr :
             /\ ptr # 0
             /\ config_'.providers[ptr].api_key = "AIzaSy-gemini-key")
       /\ Let(selectProvider(Store(config_', config_loaded_'),
                             [home_dir |-> "",
                              read |-> [first |-> FALSE, second |-> ""]],
                             "", "").result,
              LAMBDA auto : auto.success /\ auto.provider = GEMINI)]_vars

\* C19: after a load that parsed a file, an API key held by OPENAI_API_KEY
\* or ANTHROPIC_API_KEY is the key the configuration has for that
\* provider, whatever api_key the file gives.
C19_EnvironmentOverridesFile ==
  [][(op' = "loadConfig_path" /\ load_returned') =>
       \A i \in 1..NumFiles, environ \in EnvVars :
         Loaded("loadConfig_path",
                loadConfig_path(Store(config_, config_loaded_),
                                [first |-> TRUE, second |-> ConfigFiles[i]],
                                environ)) =>
           /\ environ.OPENAI_API_KEY # "" =>
                Let(FindProvider(config_', OPENAI), LAMBDA ptr :
                  /\ ptr # 0
                  /\ config_'.providers[ptr].api_key = environ.OPENAI_API_KEY)
           /\ environ.ANTHROPIC_API_KEY # "" =>
                Let(FindProvider(config_', ANTHROPIC), LAMBDA ptr :
                  /\ ptr # 0
                  /\ config_'.providers[ptr].api_key =
                       environ.ANTHROPIC_API_KEY)]_vars

(***************************************************************************)
(* Properties of generateQuery, checked under GenSpec                      *)
(***************************************************************************)
\* The characters std::isspace accepts in the "C" locale, the vertical tab
\* aside.
IsSpaceChars == {" ", "\t", "\n", "\r", "\f"}

\* The text is empty or consists of whitespace only.
Blank(text) == \A i \in 1..Len(text) : CharAt(text, i) \in IsSpaceChars

\* C20: once generateQuery has tested a request whose text is empty or
\* whitespace only, it has returned a failure, and no stage after the test
\* (selection, client creation, prompt building, provider call, parsing)
\* was entered.
C20_BlankRequestRejectedFirst ==
  (Blank(gen.request.natural_language) /\ gen.pc \notin {"idle", "validate"})
    => /\ gen.pc = "done"
       /\ ~gen.result.success
       /\ gen.steps = <<"validate">>

\* The stage generateQuery returned from.
LastStage == gen.steps[Len(gen.steps)]

\* generateQuery returned on one of its error paths: before the parse, or
\* from a parse that threw or reported a failure.
ErrorPath ==
  \/ LastStage # "parse"
  \/ parseQueryResponse(gen.response).thrown # ""
  \/ ~gen.result.success

\* C21: when generateQuery is over no exception has left it, and on every
\* error path the result has success = false and an empty generated_query.
C21_EveryErrorPathIsAFailureResult ==
  gen.pc = "done" =>
    /\ gen.escaped = ""
    /\ ErrorPath => (~gen.result.success /\ gen.result.generated_query = "")

\* generateQuery returned the failure made from an exception that
\* parseQueryResponse or the lazy load of the configuration threw.
C21_Witness ==
  /\ gen.pc = "done"
  /\ gen.escaped = ""
  /\ StartsAt(gen.result.error_message, 1, "Exception: ")
  /\ ~gen.result.success

(***************************************************************************)
(* Properties of buildPrompt, checked under PromptSpec                     *)
(***************************************************************************)
PromptReturned == fcall.fn = "buildPrompt" /\ fcall.pc = "returned"

\* The positions in the listing of the tables whose name occurs in the
\* request text.
Matches ==
  {k \in 1..Len(fcall.listing.tables) :
     Find(fcall.natural_language, fcall.listing.tables[k])}

\* The first three of them.
FirstThree == {k \in Matches : Cardinality({m \in Matches : m < k}) < 3}

\* The i-th of the first three, in catalog order.
NthMatch(i) ==
  fcall.listing.tables[
    CHOOSE k \in FirstThree : Cardinality({m \in FirstThree : m < k}) = i - 1]

\* The detail block of a table is part of the prompt.
HasDetails(name) == Find(fcall.out.prompt, formatTableDetailsForAI(name))

\* C22: buildPrompt calls getTableDetails for the first three listed
\* tables whose name occurs in the request text, in catalog order, and for
\* no other table; the prompt holds the details of those whose fetch
\* succeeded and of no other table.  (A fetch that throws ends the loop.)
C22_DetailsForFirstThreeMatches ==
  (PromptReturned /\ fcall.listing.outcome = "ok") =>
    /\ Len(fcall.out.fetched) <= Cardinality(FirstThree)
    /\ \A i \in 1..Len(fcall.out.fetched) : fcall.out.fetched[i] = NthMatch(i)
    /\ (\A k \in FirstThree :
          fcall.details[fcall.listing.tables[k]] # "thrown")
         => Len(fcall.out.fetched) = Cardinality(FirstThree)
    /\ \A k \in 1..NumTables :
         HasDetails(TableNames[k]) <=>
           \E i \in 1..Len(fcall.out.fetched) :
             /\ fcall.out.fetched[i] = TableNames[k]
             /\ fcall.details[TableNames[k]] = "ok"

\* Four listed tables occur in the request; three were fetched and appended.
C22_Witness ==
  /\ PromptReturned
  /\ Cardinality(Matches) > 3
  /\ Len(fcall.out.appended) = 3

\* The task framing and the request line.
Framing == "Generate a PostgreSQL query for this request:\n\n"

RequestLine == "Request: " \o fcall.natural_language \o "\n"

\* C23: buildPrompt returns, and its prompt holds the task framing and the
\* request text whatever the catalog answers; when the listing failed or
\* threw the prompt is these two alone; and a table among the first three
\* matches whose fetch succeeded has its details in the prompt although
\* the fetch of another one failed.
C23_PromptSurvivesCatalogFailures ==
  (fcall.fn = "buildPrompt" /\ fcall.pc # "call") =>
    /\ fcall.pc = "returned"
    /\ StartsAt(fcall.out.prompt, 1, Framing \o RequestLine)
    /\ fcall.listing.outcome # "ok" =>
         fcall.out.prompt = Framing \o RequestLine
    /\ (/\ fcall.listing.outcome = "ok"
        /\ \A k \in FirstThree :
             fcall.details[fcall.listing.tables[k]] # "thrown")
         => \A k \in FirstThree :
              fcall.details[fcall.listing.tables[k]] = "ok"
                => HasDetails(fcall.listing.tables[k])

\* The first fetch failed and a later table's details were appended.
C23_Witness ==
  /\ PromptReturned
  /\ Len(fcall.out.fetched) >= 2
  /\ fcall.details[fcall.out.fetched[1]] = "failed"
  /\ fcall.out.appended # <<>>

(***************************************************************************)
(* Properties of ResponseFormatter, checked under FormatSpec               *)
(***************************************************************************)
\* formatResponse returned the structured form, read back as JSON.
JSONReturned ==
  /\ fcall.fn = "formatResponse"
  /\ fcall.pc = "returned"
  /\ fcall.config.use_formatted_response

\* The value is null, an empty string or an empty array.
IsEmptyValue(jv) ==
  \/ jv.t = "null"
  \/ jv.t = "string" /\ jv.v = ""
  \/ jv.t = "array" /\ jv.v = <<>>

\* C24: the structured output is a JSON object in which query and success
\* are always present with the result's values; explanation, warnings and
\* suggested_visualization are present exactly when their show-flag is on
\* and the value is not empty; row_limit_applied is present, as true,
\* exactly when the result's flag is true; no other member is null or
\* empty.
C24_JSONOptionalFields ==
  JSONReturned =>
    LET parsed == JsonParse(fcall.out)
        obj == parsed.val
        r == fcall.result
        c == fcall.config
    IN /\ parsed.ok /\ obj.t = "object"
       /\ Has(obj, "query") /\ obj.v["query"] = JString(r.generated_query)
       /\ Has(obj, "success")
       /\ obj.v["success"] = JBool(IF r.success THEN "true" ELSE "false")
       /\ Has(obj, "explanation") <=> (c.show_explanation /\ r.explanation # "")
       /\ Has(obj, "explanation") =>
            obj.v["explanation"] = JString(r.explanation)
       /\ Has(obj, "warnings") <=> (c.show_warnings /\ r.warnings # <<>>)
       /\ Has(obj, "warnings") =>
            obj.v["warnings"] =
              JArray([i \in 1..Len(r.warnings) |-> JString(r.warnings[i])])
       /\ Has(obj, "suggested_visualization") <=>
            (c.show_suggested_visualization /\ r.suggested_visualization # "")
       /\ Has(obj, "row_limit_applied") <=> r.row_limit_applied
       /\ Has(obj, "row_limit_applied") =>
            obj.v["row_limit_applied"] = JBool("true")
       /\ \A key \in DOMAIN obj.v \ {"query", "success"} :
            ~IsEmptyValue(obj.v[key])

\* A structured output in which a flag hides a value that is not empty and
\* another member is written.
C24_Witness ==
  /\ JSONReturned
  /\ ~fcall.config.show_explanation /\ fcall.result.explanation # ""
  /\ fcall.config.show_warnings /\ Len(fcall.result.warnings) = 2
  /\ Find(fcall.out, "\"warnings\": [")

\* formatResponse returned the plain-text form.
PlainReturned ==
  /\ fcall.fn = "formatResponse"
  /\ fcall.pc = "returned"
  /\ ~fcall.config.use_formatted_response

\* Where each block of the plain-text output starts, -1 when it is absent.
BlockStarts ==
  << FindPos(fcall.out, "\n\n-- Explanation:\n-- "),
     FindPos(fcall.out, "\n\n-- Warning"),
     FindPos(fcall.out, "\n\n-- Suggested Visualization:\n-- "),
     FindPos(fcall.out, "\n\n-- Note: Row limit was automatically applied") >>

OwnName(provider) ==
  IF provider = OPENAI THEN "openai"
  ELSE IF provider = ANTHROPIC THEN "anthropic"
  ELSE IF provider = GEMINI THEN "gemini"
  ELSE "unknown"

\* C26: providerToString returns "openai", "anthropic", "gemini" for the
\* known providers and "unknown" for UNKNOWN; stringToProvider maps each of
\* these names in any letter case back to the same provider, so that
\* stringToProvider(providerToString(p)) = p; every other string, the
\* empty one included, maps to UNKNOWN.
C26_ProviderNamesRoundTrip ==
  (fcall.fn = "providerNames" /\ fcall.pc = "returned") =>
    /\ fcall.name = OwnName(fcall.provider)
    /\ fcall.back = fcall.provider
    /\ \A p \in Providers :
         ToLower(fcall.provider_str) = OwnName(p) => fcall.parsed = p
    /\ (\A p \in Providers : ToLower(fcall.provider_str) # OwnName(p))
         => fcall.parsed = UNKNOWN

(***************************************************************************)
(* The order of the steps of one generateQuery request, under GenSpec      *)
(***************************************************************************)
\* How many times stage occurs among the steps taken so far.
Times(stage) == Cardinality({i \in 1..Len(gen.steps) : gen.steps[i] = stage})

\* The position of stage among the steps taken so far, 0 when it is absent.
StepOf(stage) ==
  IF Times(stage) = 0 THEN 0
  ELSE CHOOSE i \in 1..Len(gen.steps) : gen.steps[i] = stage

C28_OneEntryPerProviderDefaultFirst ==
  /\ \A i, k \in 1..Len(config_.providers) :
       i # k => config_.providers[i].provider # config_.providers[k].provider
  /\ config_.providers # <<>> =>
       config_.default_provider = config_.providers[1]

(***************************************************************************)
(* The results of selectProvider, under StoreSpec                          *)
(***************************************************************************)
\* C29: every result selectProvider returns has success true exactly when
\* its api_key is not empty and exactly when its error_message is empty;
\* on success api_key_source is not empty; and its config, when not null,
\* points to the entry of the provider of the result.
C29_SelectionResultConsistent ==
  (op = "selectProvider" /\ call_pc = "returned") =>
    /\ selection.success <=> selection.api_key # ""
    /\ selection.success <=> selection.error_message = ""
    /\ selection.success => selection.api_key_source # ""
    /\ selection.config # 0 =>
         /\ selection.config \in 1..Len(config_.providers)
         /\ config_.providers[selection.config].provider = selection.provider

\* A successful selection by an inline key that carries the entry of the
\* provider, in a store that also holds an entry of another provider.
C29_Witness ==
  /\ op = "selectProvider" /\ call_pc = "returned"
  /\ selection.success
  /\ selection.api_key_source = "parameter"
  /\ selection.config # 0
  /\ Len(config_.providers) = 2

(***************************************************************************)
(* The failures of parseQueryResponse, under ParserSpec                    *)
(***************************************************************************)
\* C30: whenever parseQueryResponse returns success = false, the
\* error_message of the result is not empty.
C30_FailureHasMessage ==
  (parse_pc = "returned" /\ ~result.success) => result.error_message # ""

====
